---------------------------- MODULE Spec2Model ----------------------------
(***************************************************************************)
(* PodSumAI main process: feed synchronisation (PodcastService), audio     *)
(* provisioning (AudioService) and the AI summary workflow (GeminiService) *)
(* over the SQLite store (DatabaseManager).                                *)
(*                                                                         *)
(* Scheduling.  The main process is one JavaScript event loop.  A handler  *)
(* runs without interruption until it awaits real I/O; the continuation of *)
(* an await runs as a microtask of the I/O completion that settled it.     *)
(* The variable running names the task whose synchronous code is being     *)
(* executed (Idle when the loop is idle): while it is set, no other task   *)
(* and no I/O completion is taken.                                         *)
(***************************************************************************)
EXTENDS Integers, Sequences, FiniteSets, TLC

(***************************************************************************)
(* Bounds of the model                                                     *)
(***************************************************************************)
NumInvocations == 2      \* generateSummary invocations
NumSyncs == 2            \* syncPodcast invocations
NumDownloads == 1        \* downloadToPersistent invocations
MaxTitleLen == 2         \* length of the titles a path is built from
MaxDurationLen == 4      \* length of the itunes:duration texts

Invocations == 1..NumInvocations
Syncs == 1..NumSyncs
Downloads == 1..NumDownloads

(***************************************************************************)
(* Program constants                                                       *)
(***************************************************************************)
MaxFileSizeMB == 2000    \* Gemini size ceiling
MaxWaitMs == 60000       \* polling budget
PollIntervalMs == 2000   \* pause between polls
FetchTimeoutMs == 30000  \* parseRSSInWorker's timer
HttpTimeoutMs == 15000   \* the worker's HTTP timeout; a fetch's time is
                         \* counted in steps of it

(***************************************************************************)
(* Value domains                                                           *)
(***************************************************************************)
Idle == <<>>                       \* the event loop runs no task
NoName == <<>>                     \* no remote file name (null)
NoEpisode == "NULL"                \* generatingEpisodeId = null
NULL == "NULL"                     \* SQL NULL / JS null in a text column
NoPath == <<>>                     \* NULL in a path column
EpisodeIds == {"e1", "e2"}
FeedUrls == {"u1"}
AudioUrls == {"a1", "a2"}
Prompts == {NULL, "c1"}
Artworks == {NULL, "art1", "art2"}
DefaultPrompt == "DEFAULT_PROMPT"
Texts == {"md1", "md2"}            \* texts the model may generate
FileSizesMB == {0, 100, 2500}      \* body sizes a download may deliver
TitleA == <<"E", "p", " ", "1">>
TitleB == <<"E", "p", "#", "2">>
PodTitle == <<"A", "/", "B">>
PodTitle2 == <<"A", "_", "B">>
PodTitles == {PodTitle, PodTitle2}
FetchErrors == {"NETWORK", "HTTP_STATUS", "INVALID_FEED", "TIMEOUT"}

Truthy(s) == s # NULL /\ s # ""    \* JS truthiness of a nullable string
TruthyPath(p) == p # NoPath
TempPath(e) == <<"tmp", e>>        \* <tempDir>/<episodeId>.mp3

\* String.replace(/[^a-zA-Z0-9\s\-_]/g, "_") over the characters in use
AllowedChars == {"A", "B", "E", "T", "e", "p", "s", "t", "1", "2",
                 " ", "-", "_"}

\* mutant: the title is used as it is
sanitizeNothing(t) == t

sanitize(t) == [k \in 1..Len(t) |-> IF t[k] \in AllowedChars THEN t[k]
                                     ELSE "_"]
\* ~/Music/Podcasts/{podcast_title}/{episode_title}.mp3
\* (path.join leaves out a segment that is empty)
destPath(podcastTitle, title) ==
  <<"Music", "Podcasts">>
    \o (IF sanitize(podcastTitle) = <<>> THEN <<>>
        ELSE <<sanitize(podcastTitle)>>)
    \o <<sanitize(title) \o <<".mp3">>>>

\* titles a path is built from: every short string over letters, the
\* allowed marks, separators and dots, and the titles of the specification's
\* example
TitleChars == {"A", " ", "_", "/", "\\", "."}
ExamplePodcast == <<"A", "/", "B", ":", " ", "T", "e", "s", "t", "?">>
ExampleEpisode == <<"E", "p", " ", "#", "1">>
TitleInputs ==
  UNION {[1..n -> TitleChars] : n \in 0..MaxTitleLen}
    \cup {ExamplePodcast, ExampleEpisode}

\* Feeds the worker may post back (RSSFeed)
FeedItem(guid, title, pub, dur, audio) ==
  [guid |-> guid, title |-> title, pub_date |-> pub, duration |-> dur,
   audio_url |-> audio]
FeedA ==
  [podcast |-> [title |-> PodTitle, artwork_url |-> "art1"],
   episodes |-> <<FeedItem("e1", TitleA, 1, 90, "a1"),
                  FeedItem("e2", TitleB, 1, 0, "a2")>>]
FeedB ==
  [podcast |-> [title |-> PodTitle2, artwork_url |-> NULL],
   episodes |-> <<FeedItem("e2", TitleA, 2, 120, "a1"),
                  FeedItem("e1", TitleB, 2, 30, "a2")>>]
NoFeed == [podcast |-> [title |-> <<>>, artwork_url |-> NULL],
           episodes |-> <<>>]
Feeds == {FeedA, FeedB}

(***************************************************************************)
(* The worker's duration extraction.  A JS number is [nan, n]: NaN, or the *)
(* integer n (the texts in use hold no fraction and no exponent).          *)
(***************************************************************************)
Num(n) == [nan |-> FALSE, n |-> n]
NaN == [nan |-> TRUE, n |-> 0]
Digits == <<"0", "1", "2", "3", "4", "5", "6", "7", "8", "9">>
DigitChars == {Digits[k] : k \in DOMAIN Digits}
DigitValue(c) == (CHOOSE k \in DOMAIN Digits : Digits[k] = c) - 1
AllDigits(str) == \A k \in 1..Len(str) : str[k] \in DigitChars

RECURSIVE decimal(_)
decimal(str) ==
  IF str = <<>> THEN 0
  ELSE decimal(SubSeq(str, 1, Len(str) - 1)) * 10 + DigitValue(str[Len(str)])

\* str.split(":")
RECURSIVE split(_)
split(str) ==
  IF \A k \in 1..Len(str) : str[k] # ":" THEN <<str>>
  ELSE LET k == CHOOSE j \in 1..Len(str) :
                  str[j] = ":" /\ \A m \in 1..(j - 1) : str[m] # ":"
       IN <<SubSeq(str, 1, k - 1)>> \o split(SubSeq(str, k + 1, Len(str)))

Signed(str) == str # <<>> /\ str[1] \in {"-", "+"}
Unsigned(str) == IF Signed(str) THEN Tail(str) ELSE str
WithSign(str, n) == IF str # <<>> /\ str[1] = "-" THEN 0 - n ELSE n

\* Number(str): the whole text must be a numeral; the empty text is 0
Number(str) ==
  IF str = <<>> THEN Num(0)
  ELSE IF Unsigned(str) # <<>> /\ AllDigits(Unsigned(str))
  THEN Num(WithSign(str, decimal(Unsigned(str))))
  ELSE NaN

\* parseInt(str, 10): the longest numeral the text starts with
parseInt(str) ==
  LET body == Unsigned(str)
      ks == {k \in 0..Len(body) : AllDigits(SubSeq(body, 1, k))}
      len == CHOOSE k \in ks : \A m \in ks : m <= k
  IN IF len = 0 THEN NaN
     ELSE Num(WithSign(str, decimal(SubSeq(body, 1, len))))

\* x || 0
orZero(x) == IF x.nan \/ x.n = 0 THEN Num(0) ELSE x
plus(x, y) == IF x.nan \/ y.nan THEN NaN ELSE Num(x.n + y.n)
times(x, n) == IF x.nan THEN NaN ELSE Num(x.n * n)

\* duration of an item whose itunes:duration is raw (<<>>: none)
parseDuration(raw) ==
  IF raw = <<>> THEN Num(0)
  ELSE IF \E k \in 1..Len(raw) : raw[k] = ":"
  THEN LET parts == [k \in 1..Len(split(raw)) |-> Number(split(raw)[k])]
       IN IF Len(parts) = 3
          THEN plus(plus(times(parts[1], 3600), times(parts[2], 60)),
                    parts[3])
          ELSE IF Len(parts) = 2
          THEN plus(times(parts[1], 60), parts[2])
          ELSE orZero(parseInt(raw))
  ELSE orZero(parseInt(raw))

\* itunes:duration texts: every short text over two digits, the colon, a
\* letter and the minus sign, and the specification's examples
DurationChars == {"0", "1", ":", "a", "-"}
DurationInputs ==
  UNION {[1..n -> DurationChars] : n \in 0..MaxDurationLen}
    \cup {<<"1", ":", "0", "2", ":", "0", "3">>, <<"4", "5", ":", "1", "0">>,
          <<"9", "0">>}

(***************************************************************************)
(* DatabaseManager: the tables are sets of rows; a statement maps tables   *)
(* to [ok, rows], ok = FALSE when a constraint makes the statement throw.  *)
(***************************************************************************)
getPodcastByFeedUrl(P, url) == {r \in P : r.feed_url = url}
getPodcastById(P, id) == {r \in P : r.id = id}
getEpisodeById(E, id) == {r \in E : r.id = id}
getEpisodesByPodcast(E, pid) == {r \in E : r.podcast_id = pid}
getDocumentsByEpisode(D, e) == {d \in D : d.episode_id = e}

\* mutant: the conflict clause also takes excluded.custom_prompt of a
\* caller that passes none
upsertPodcastResetsPrompt(P, id, title, url, art, now, cp) ==
  IF getPodcastByFeedUrl(P, url) # {}
  THEN [ok |-> TRUE,
        rows |-> {IF r.feed_url = url
                  THEN [r EXCEPT !.title = title, !.artwork_url = art,
                                 !.last_fetched_at = now,
                                 !.custom_prompt = NULL]
                  ELSE r : r \in P}]
  ELSE [ok |-> TRUE,
        rows |-> P \cup {[id |-> id, title |-> title, feed_url |-> url,
                          artwork_url |-> art, last_fetched_at |-> now,
                          custom_prompt |-> cp]}]

\* mutant: a plain INSERT, the second sync of a feed URL breaks the
\* uniqueness of feed_url
upsertPodcastPlainInsert(P, id, title, url, art, now, cp) ==
  IF getPodcastByFeedUrl(P, url) # {} \/ getPodcastById(P, id) # {}
  THEN [ok |-> FALSE, rows |-> P]
  ELSE [ok |-> TRUE,
        rows |-> P \cup {[id |-> id, title |-> title, feed_url |-> url,
                          artwork_url |-> art, last_fetched_at |-> now,
                          custom_prompt |-> cp]}]

upsertPodcast(P, id, title, url, art, now, cp) ==
  IF getPodcastByFeedUrl(P, url) # {}
  THEN [ok |-> TRUE,
        rows |-> {IF r.feed_url = url
                  THEN [r EXCEPT !.title = title, !.artwork_url = art,
                                 !.last_fetched_at = now]
                  ELSE r : r \in P}]
  ELSE IF getPodcastById(P, id) # {}
  THEN [ok |-> FALSE, rows |-> P]
  ELSE [ok |-> TRUE,
        rows |-> P \cup {[id |-> id, title |-> title, feed_url |-> url,
                          artwork_url |-> art, last_fetched_at |-> now,
                          custom_prompt |-> cp]}]

\* mutant: INSERT OR REPLACE, the row is rewritten with the column defaults
upsertEpisodeReplaces(E, P, id, pid, title, pub, dur, audio) ==
  IF getPodcastById(P, pid) = {}
  THEN [ok |-> FALSE, rows |-> E]
  ELSE [ok |-> TRUE,
        rows |-> {r \in E : r.id # id}
                 \cup {[id |-> id, podcast_id |-> pid, title |-> title,
                         pub_date |-> pub, duration |-> dur,
                         audio_url |-> audio, is_downloaded |-> 0,
                         local_file_path |-> NoPath]}]

upsertEpisode(E, P, id, pid, title, pub, dur, audio) ==
  IF getEpisodeById(E, id) # {}
  THEN [ok |-> TRUE,
        rows |-> {IF r.id = id
                  THEN [r EXCEPT !.title = title, !.duration = dur,
                                 !.audio_url = audio]
                  ELSE r : r \in E}]
  ELSE IF getPodcastById(P, pid) = {}
  THEN [ok |-> FALSE, rows |-> E]
  ELSE [ok |-> TRUE,
        rows |-> E \cup {[id |-> id, podcast_id |-> pid, title |-> title,
                          pub_date |-> pub, duration |-> dur,
                          audio_url |-> audio, is_downloaded |-> 0,
                          local_file_path |-> NoPath]}]

\* mutant: only the flag is written
updateEpisodeDownloadStatusFlagOnly(E, flag, path, id) ==
  {IF r.id = id THEN [r EXCEPT !.is_downloaded = flag] ELSE r : r \in E}

updateEpisodeDownloadStatus(E, flag, path, id) ==
  {IF r.id = id THEN [r EXCEPT !.is_downloaded = flag,
                               !.local_file_path = path]
   ELSE r : r \in E}

updatePodcastPrompt(P, prompt, id) ==
  {IF r.id = id THEN [r EXCEPT !.custom_prompt = prompt] ELSE r : r \in P}

deleteDocumentsByEpisode(D, e) == {d \in D : d.episode_id # e}

\* mutant: the episode_id key is not enforced
insertDocumentNoForeignKey(D, E, id, e, content, now, prompt) ==
  IF \E d \in D : d.id = id
  THEN [ok |-> FALSE, rows |-> D]
  ELSE [ok |-> TRUE,
        rows |-> D \cup {[id |-> id, episode_id |-> e, content |-> content,
                          created_at |-> now, used_prompt |-> prompt]}]

insertDocument(D, E, id, e, content, now, prompt) ==
  IF getEpisodeById(E, e) = {} \/ \E d \in D : d.id = id
  THEN [ok |-> FALSE, rows |-> D]
  ELSE [ok |-> TRUE,
        rows |-> D \cup {[id |-> id, episode_id |-> e, content |-> content,
                          created_at |-> now, used_prompt |-> prompt]}]

\* DELETE FROM podcasts WHERE id = ?, with ON DELETE CASCADE on both keys
deletePodcastCascade(db, pid) ==
  LET gone == {r.id : r \in getEpisodesByPodcast(db.episodes, pid)}
  IN [podcasts |-> {r \in db.podcasts : r.id # pid},
      episodes |-> {r \in db.episodes : r.podcast_id # pid},
      documents |-> {d \in db.documents : d.episode_id \notin gone}]

\* mutant: what the body wrote stays when it throws
transactionNoRollback(before, work) == work.db

\* db.transaction(fn)(): commit what fn wrote, or roll back when fn threw
transaction(before, work) == IF work.ok THEN work.db ELSE before


(***************************************************************************)
(* Local file system: files maps each existing path to its size in MB.     *)
(***************************************************************************)
existsSync(F, p) == p \in DOMAIN F
writeFile(F, p, size) ==
  [q \in DOMAIN F \cup {p} |-> IF q = p THEN size ELSE F[q]]
unlinkSync(F, p) == [q \in DOMAIN F \ {p} |-> F[q]]

VARIABLES
  podcasts, episodes, documents,   \* the three tables
  nextId, clock,                   \* generateId() and now()
  files, remoteFiles,              \* local disk, Gemini Files API
  isGenerating, generatingEpisodeId,   \* GeminiService fields
  gen,                             \* generateSummary invocations
  sync,                            \* syncPodcast invocations
  pdel,                            \* deletePodcast in progress
  dl,                              \* downloadToPersistent invocations
  ddel,                            \* delete_download handlers in flight
  running                          \* task whose synchronous code runs

vars == <<podcasts, episodes, documents, nextId, clock, files, remoteFiles,
          isGenerating, generatingEpisodeId, gen, sync, pdel, dl, ddel,
          running>>

dbVars == <<podcasts, episodes, documents, nextId, clock>>
guardVars == <<isGenerating, generatingEpisodeId>>
dlVars == <<dl, ddel>>

NoAudio == [path |-> NoPath, isEphemeral |-> FALSE]
NoPending == [kind |-> "none", value |-> ""]
Returns(v) == [kind |-> "return", value |-> v]
Throws(v) == [kind |-> "throw", value |-> v]

\* locals of one generateSummary invocation, plus counters of what it did
GenInit ==
  [pc |-> "init", episodeId |-> NoEpisode, acquired |-> FALSE,
   localAudio |-> NoAudio, geminiFileName |-> NoName, handle |-> NoName,
   prompt |-> "", markdown |-> "", pending |-> NoPending, elapsed |-> 0,
   polls |-> 0,                    \* getFile requests of pollUntilActive
   fileState |-> "",               \* what the last of them answered
   promptAtUpload |-> "",          \* the prompt in force when the upload began
   audioRequests |-> 0, uploads |-> 0, generations |-> 0,
   remoteDeletes |-> 0,
   outcome |-> NoPending,          \* how the try block ended
   remoteThrew |-> FALSE, localThrew |-> FALSE]   \* cleanup errors caught

GenDone == [GenInit EXCEPT !.pc = "done"]

SyncInit == [pc |-> "init", url |-> "", artworkUrl |-> NULL,
             feed |-> NoFeed, result |-> NoPending,
             failAt |-> 0,         \* statement of the transaction that threw
             worker |-> "none",    \* running, terminated, exited
             timer |-> "none",     \* armed, fired (first event), spent
                                   \* (fired after the first), cleared
             waited |-> 0,         \* ms since the worker was started
             raw |-> <<>>,         \* itunes:duration of the item being read
             duration |-> Num(0),  \* the worker's duration of that item
             late |-> FALSE]       \* an event arrived after the first
SyncDone == [SyncInit EXCEPT !.pc = "done"]
DlInit == [pc |-> "init", episodeId |-> NoEpisode, destPath |-> NoPath,
           url |-> "", result |-> NoPending,
           opened |-> FALSE,       \* createWriteStream(destPath) has run
           replaced |-> FALSE,     \* and it truncated a file with content
           unlinkThrew |-> FALSE]  \* the partial file's unlink threw
DlDone == [DlInit EXCEPT !.pc = "done"]
PdelIdle == [pc |-> "idle", paths |-> {}]

VaultPath == destPath(PodTitle, TitleB)

SeedPodcasts ==
  {[id |-> 1, title |-> PodTitle, feed_url |-> "u1", artwork_url |-> "art1",
    last_fetched_at |-> 1, custom_prompt |-> NULL]}
SeedEpisodes ==
  {[id |-> "e1", podcast_id |-> 1, title |-> TitleA, pub_date |-> 1,
    duration |-> 90, audio_url |-> "a1", is_downloaded |-> 0,
    local_file_path |-> NoPath],
   [id |-> "e2", podcast_id |-> 1, title |-> TitleB, pub_date |-> 1,
    duration |-> 0, audio_url |-> "a2", is_downloaded |-> 1,
    local_file_path |-> VaultPath]}

\* After construction the store is empty; the seeded start is the store
\* after one sync of u1 and a persistent download of e2.
Init ==
  /\ \E seeded \in BOOLEAN :
       IF seeded
       THEN /\ podcasts = SeedPodcasts
            /\ episodes = SeedEpisodes
            /\ nextId = 2
            /\ clock = 2
            /\ \E size \in FileSizesMB \ {0} :
                 files = [p \in {VaultPath} |-> size]
       ELSE /\ podcasts = {}
            /\ episodes = {}
            /\ nextId = 1
            /\ clock = 1
            /\ files = <<>>
  /\ documents = {}
  /\ remoteFiles = {}
  /\ isGenerating = FALSE
  /\ generatingEpisodeId = NoEpisode
  /\ gen = [i \in Invocations |-> GenInit]
  /\ sync = [s \in Syncs |-> SyncInit]
  /\ pdel = PdelIdle
  /\ dl = [d \in Downloads |-> DlInit]
  /\ ddel = {}
  /\ running = Idle

(***************************************************************************)
(* GeminiService: the single-flight flag                                   *)
(***************************************************************************)
getGeneratingStatus == [isGenerating |-> isGenerating,
                        episodeId |-> generatingEpisodeId]

\* mutant: the flag is set without being tested
startGenerationNoTest(flag, cur, episodeId) ==
  [started |-> TRUE, isGenerating |-> TRUE, generatingEpisodeId |-> episodeId]

\* mutant: the episode id is recorded before the flag is tested
startGenerationEarlyId(flag, cur, episodeId) ==
  IF flag
  THEN [started |-> FALSE, isGenerating |-> flag,
        generatingEpisodeId |-> episodeId]
  ELSE [started |-> TRUE, isGenerating |-> TRUE,
        generatingEpisodeId |-> episodeId]

startGeneration(flag, cur, episodeId) ==
  IF flag
  THEN [started |-> FALSE, isGenerating |-> flag, generatingEpisodeId |-> cur]
  ELSE [started |-> TRUE, isGenerating |-> TRUE,
        generatingEpisodeId |-> episodeId]

\* mutant: only the episode id is reset
completeGenerationKeepsFlag ==
  [isGenerating |-> isGenerating, generatingEpisodeId |-> NoEpisode]

completeGeneration ==
  [isGenerating |-> FALSE, generatingEpisodeId |-> NoEpisode]

Me(i) == <<"gen", i>>
Throw(r, err) == [r EXCEPT !.pc = "finally", !.pending = Throws(err),
                           !.outcome = Throws(err), !.elapsed = 0]
SetGen(i, r) == gen' = [gen EXCEPT ![i] = r]

\* invocation slots are taken in order (they are interchangeable)
Fresh(i) ==
  /\ gen[i].pc = "init"
  /\ \A j \in Invocations : j < i => gen[j].pc # "init"

\* generateSummary has settled: its caller (the handler) runs next
Rejected(e) == [GenInit EXCEPT !.pc = "returned", !.episodeId = e,
                               !.pending = Throws("ALREADY_GENERATING"),
                               !.outcome = Throws("ALREADY_GENERATING")]

(***************************************************************************)
(* run_ai_summary handler: its own status check, before generateSummary    *)
(***************************************************************************)
HandlerReject(i, e) ==
  /\ running = Idle
  /\ Fresh(i)
  /\ getGeneratingStatus.isGenerating
  /\ SetGen(i, Rejected(e))
  /\ running' = Me(i)
  /\ UNCHANGED <<dlVars, dbVars, files, remoteFiles, guardVars, sync, pdel>>

(***************************************************************************)
(* generateSummary up to the guard                                         *)
(***************************************************************************)
GenerateSummary(i, e) ==
  /\ running = Idle
  /\ Fresh(i)
  /\ LET st == startGeneration(isGenerating, generatingEpisodeId, e)
     IN /\ isGenerating' = st.isGenerating
        /\ generatingEpisodeId' = st.generatingEpisodeId
        /\ IF st.started
           THEN /\ SetGen(i, [GenInit EXCEPT !.pc = "provision",
                                             !.episodeId = e,
                                             !.acquired = TRUE])
           ELSE SetGen(i, Rejected(e))
        /\ running' = Me(i)
  /\ UNCHANGED <<dlVars, dbVars, files, remoteFiles, sync, pdel>>

(***************************************************************************)
(* AudioService.provisionAudio, up to the download request                 *)
(***************************************************************************)
\* mutant: the vault is not consulted
provisionAudioNoVault(E, F, episodeId) ==
  LET found == getEpisodeById(E, episodeId)
      episode == CHOOSE r \in found : TRUE
  IN IF found = {}
     THEN [kind |-> "throw", episodes |-> E, path |-> NoPath, url |-> ""]
     ELSE [kind |-> "download", episodes |-> E,
           path |-> TempPath(episodeId), url |-> episode.audio_url]

\* mutant: a missing vault file leaves the row as it is
provisionAudioNoReset(E, F, episodeId) ==
  LET found == getEpisodeById(E, episodeId)
      episode == CHOOSE r \in found : TRUE
  IN IF found = {}
     THEN [kind |-> "throw", episodes |-> E, path |-> NoPath, url |-> ""]
     ELSE IF episode.is_downloaded # 0 /\ TruthyPath(episode.local_file_path)
             /\ existsSync(F, episode.local_file_path)
     THEN [kind |-> "vault", episodes |-> E,
           path |-> episode.local_file_path, url |-> ""]
     ELSE [kind |-> "download", episodes |-> E,
           path |-> TempPath(episodeId), url |-> episode.audio_url]

provisionAudio(E, F, episodeId) ==
  LET found == getEpisodeById(E, episodeId)
      episode == CHOOSE r \in found : TRUE
  IN IF found = {}
     THEN [kind |-> "throw", episodes |-> E, path |-> NoPath, url |-> ""]
     ELSE IF episode.is_downloaded # 0 /\ TruthyPath(episode.local_file_path)
     THEN IF existsSync(F, episode.local_file_path)
          THEN [kind |-> "vault", episodes |-> E,
                path |-> episode.local_file_path, url |-> ""]
          ELSE [kind |-> "download",
                episodes |-> updateEpisodeDownloadStatus(E, 0, NoPath,
                                                         episodeId),
                path |-> TempPath(episodeId), url |-> episode.audio_url]
     ELSE [kind |-> "download", episodes |-> E,
           path |-> TempPath(episodeId), url |-> episode.audio_url]

ProvisionAudio(i) ==
  /\ running = Me(i)
  /\ gen[i].pc = "provision"
  /\ LET r == gen[i]
         p == provisionAudio(episodes, files, r.episodeId)
     IN /\ episodes' = p.episodes
        /\ CASE p.kind = "throw" ->
                  /\ SetGen(i, Throw(r, "EPISODE_NOT_FOUND"))
                  /\ UNCHANGED running
             [] p.kind = "vault" ->
                  /\ SetGen(i, [r EXCEPT !.pc = "sizecheck",
                                  !.localAudio = [path |-> p.path,
                                                  isEphemeral |-> FALSE]])
                  /\ UNCHANGED running
             [] p.kind = "download" ->
                  /\ SetGen(i, [r EXCEPT !.pc = "dl_request",
                                  !.audioRequests = @ + 1])
                  /\ running' = Idle
  /\ UNCHANGED <<dlVars, podcasts, documents, nextId, clock, files, remoteFiles,
                 guardVars, sync, pdel>>

(***************************************************************************)
(* AudioService.downloadStream into the temp cache                         *)
(***************************************************************************)
\* fs.createWriteStream(destPath): creates the file or truncates it
createWriteStream(F, p) == writeFile(F, p, 0)

\* the stream writes the body to the open file (nothing appears at the path
\* when the file was unlinked meanwhile)
pipeBody(F, p, size) == IF existsSync(F, p) THEN writeFile(F, p, size) ELSE F

\* error handlers of writer and response: unlink the partial file, errors of
\* the unlink itself are ignored
cleanupPartial(F, p, unlinkOk) ==
  IF existsSync(F, p) /\ unlinkOk THEN unlinkSync(F, p) ELSE F

\* the check after 'finish'
verifyDownload(F, p) ==
  IF existsSync(F, p)
  THEN IF F[p] > 0 THEN "ok" ELSE "DOWNLOAD_EMPTY"
  ELSE "DOWNLOAD_NOT_FOUND"

DlResponse(i) ==
  /\ running = Idle
  /\ gen[i].pc = "dl_request"
  /\ files' = createWriteStream(files, TempPath(gen[i].episodeId))
  /\ SetGen(i, [gen[i] EXCEPT !.pc = "dl_stream"])
  /\ UNCHANGED <<dlVars, dbVars, remoteFiles, guardVars, sync, pdel, running>>

DlRequestError(i) ==
  /\ running = Idle
  /\ gen[i].pc = "dl_request"
  /\ SetGen(i, Throw(gen[i], "DOWNLOAD_FAILED"))
  /\ running' = Me(i)
  /\ UNCHANGED <<dlVars, dbVars, files, remoteFiles, guardVars, sync, pdel>>

DlFinish(i, size) ==
  /\ running = Idle
  /\ gen[i].pc = "dl_stream"
  /\ files' = pipeBody(files, TempPath(gen[i].episodeId), size)
  /\ SetGen(i, [gen[i] EXCEPT !.pc = "dl_verify"])
  /\ UNCHANGED <<dlVars, dbVars, remoteFiles, guardVars, sync, pdel, running>>

DlStreamError(i, unlinkOk) ==
  /\ running = Idle
  /\ gen[i].pc = "dl_stream"
  /\ files' = cleanupPartial(files, TempPath(gen[i].episodeId), unlinkOk)
  /\ SetGen(i, Throw(gen[i], "DOWNLOAD_FAILED"))
  /\ running' = Me(i)
  /\ UNCHANGED <<dlVars, dbVars, remoteFiles, guardVars, sync, pdel>>

DlVerify(i) ==
  /\ running = Idle
  /\ gen[i].pc = "dl_verify"
  /\ LET dest == TempPath(gen[i].episodeId)
         v == verifyDownload(files, dest)
     IN IF v = "ok"
        THEN SetGen(i, [gen[i] EXCEPT !.pc = "sizecheck",
                          !.localAudio = [path |-> dest,
                                          isEphemeral |-> TRUE]])
        ELSE SetGen(i, Throw(gen[i], v))
  /\ running' = Me(i)
  /\ UNCHANGED <<dlVars, dbVars, files, remoteFiles, guardVars, sync, pdel>>

(***************************************************************************)
(* generateSummary: size check and upload                                  *)
(***************************************************************************)
\* mutant: the size is not compared with the ceiling
tooLargeNever(fileSizeMB) == FALSE

\* fileSizeMB > 2000
tooLarge(fileSizeMB) == fileSizeMB > MaxFileSizeMB

\* the custom prompt of the episode's podcast, DefaultPrompt without one
PromptInForce(E, P, episodeId) ==
  LET pids == {r.podcast_id : r \in getEpisodeById(E, episodeId)}
      cps == {r.custom_prompt : r \in {q \in P : q.id \in pids}}
  IN IF \E cp \in cps : Truthy(cp) THEN CHOOSE cp \in cps : Truthy(cp)
     ELSE DefaultPrompt

SizeCheck(i) ==
  /\ running = Me(i)
  /\ gen[i].pc = "sizecheck"
  /\ LET r == [gen[i] EXCEPT
                !.promptAtUpload = PromptInForce(episodes, podcasts,
                                                 gen[i].episodeId)]
     IN IF ~existsSync(files, r.localAudio.path)
        THEN SetGen(i, Throw(r, "ENOENT")) /\ UNCHANGED running
        ELSE IF tooLarge(files[r.localAudio.path])
        THEN SetGen(i, Throw(r, "FILE_TOO_LARGE")) /\ UNCHANGED running
        ELSE /\ SetGen(i, [r EXCEPT !.pc = "upload", !.uploads = @ + 1])
             /\ running' = Idle
  /\ UNCHANGED <<dlVars, dbVars, files, remoteFiles, guardVars, sync, pdel>>

RemoteName(i) == <<"files", i>>

\* pollUntilActive: the loop condition, and the time one getFile may take
\* mutant: the budget is not tested
pollContinuesAlways(elapsed, maxWaitMs) == TRUE

pollContinues(elapsed, maxWaitMs) == elapsed < maxWaitMs
GetFileLatencyMs == {0, 28000}
FileStates == {"ACTIVE", "FAILED", "PROCESSING"}

UploadResolve(i, named) ==
  /\ running = Idle
  /\ gen[i].pc = "upload"
  /\ remoteFiles' = remoteFiles \cup {RemoteName(i)}
  /\ LET name == IF named THEN RemoteName(i) ELSE NoName
         r == [gen[i] EXCEPT !.geminiFileName = name, !.handle = name]
     IN IF name = NoName
        THEN SetGen(i, Throw(r, "UPLOAD_NO_NAME")) /\ running' = Me(i)
        ELSE IF pollContinues(0, MaxWaitMs)
        THEN /\ SetGen(i, [r EXCEPT !.pc = "poll", !.elapsed = 0,
                                     !.polls = 1])
             /\ UNCHANGED running
        ELSE SetGen(i, Throw(r, "POLL_TIMEOUT")) /\ running' = Me(i)
  /\ UNCHANGED <<dlVars, dbVars, files, guardVars, sync, pdel>>

UploadReject(i) ==
  /\ running = Idle
  /\ gen[i].pc = "upload"
  /\ SetGen(i, Throw(gen[i], "UPLOAD_FAILED"))
  /\ running' = Me(i)
  /\ UNCHANGED <<dlVars, dbVars, files, remoteFiles, guardVars, sync, pdel>>

(***************************************************************************)
(* GeminiService.pollUntilActive                                           *)
(***************************************************************************)
\* pollUntilActive throws: the time and the count stay readable until the
\* finally block has run
PollThrow(r, err) == [r EXCEPT !.pc = "finally", !.pending = Throws(err),
                               !.outcome = Throws(err)]

\* getFile answered.  The 2 s sleep after a PROCESSING answer changes nothing
\* but the clock, so the answer, the sleep and the next loop test are one
\* step: latency is the time the request took.
PollResolve(i, state, latency) ==
  /\ running = Idle
  /\ gen[i].pc = "poll"
  /\ LET r == [gen[i] EXCEPT !.fileState = state]
         slept == [r EXCEPT !.elapsed = @ + latency + PollIntervalMs]
     IN CASE state = "ACTIVE" ->
               SetGen(i, [r EXCEPT !.pc = "prompt"]) /\ running' = Me(i)
          [] state = "FAILED" ->
               SetGen(i, PollThrow(r, "PROCESSING_FAILED"))
               /\ running' = Me(i)
          [] OTHER ->
               IF pollContinues(slept.elapsed, MaxWaitMs)
               THEN SetGen(i, [slept EXCEPT !.polls = @ + 1])
                    /\ UNCHANGED running
               ELSE SetGen(i, PollThrow(slept, "POLL_TIMEOUT"))
                    /\ running' = Me(i)
  /\ UNCHANGED <<dlVars, dbVars, files, remoteFiles, guardVars, sync, pdel>>

PollReject(i) ==
  /\ running = Idle
  /\ gen[i].pc = "poll"
  /\ SetGen(i, PollThrow([gen[i] EXCEPT !.fileState = "REJECTED"],
                         "POLL_ERROR"))
  /\ running' = Me(i)
  /\ UNCHANGED <<dlVars, dbVars, files, remoteFiles, guardVars, sync, pdel>>

(***************************************************************************)
(* GeminiService.getPrompt, generation and persistence                     *)
(***************************************************************************)
\* mutant: the custom prompt is not looked up
getPromptDefaultOnly(E, P, episodeId) ==
  IF getEpisodeById(E, episodeId) = {} THEN Throws("EPISODE_NOT_FOUND")
  ELSE Returns(DefaultPrompt)

getPrompt(E, P, episodeId) ==
  LET found == getEpisodeById(E, episodeId)
      episode == CHOOSE r \in found : TRUE
      pods == getPodcastById(P, episode.podcast_id)
      podcast == CHOOSE r \in pods : TRUE
  IN IF found = {} THEN Throws("EPISODE_NOT_FOUND")
     ELSE IF pods # {} /\ Truthy(podcast.custom_prompt)
     THEN Returns(podcast.custom_prompt)
     ELSE Returns(DefaultPrompt)

GetPrompt(i) ==
  /\ running = Me(i)
  /\ gen[i].pc = "prompt"
  /\ LET r == [gen[i] EXCEPT !.polls = 0, !.elapsed = 0]
         p == getPrompt(episodes, podcasts, r.episodeId)
     IN IF p.kind = "throw"
        THEN SetGen(i, Throw(r, p.value)) /\ UNCHANGED running
        ELSE /\ SetGen(i, [r EXCEPT !.pc = "generate", !.prompt = p.value,
                             !.generations = @ + 1])
             /\ running' = Idle
  /\ UNCHANGED <<dlVars, dbVars, files, remoteFiles, guardVars, sync, pdel>>

GenerateResolve(i, text) ==
  /\ running = Idle
  /\ gen[i].pc = "generate"
  /\ SetGen(i, [gen[i] EXCEPT !.pc = "persist", !.markdown = text,
                                !.promptAtUpload = ""])
  /\ running' = Me(i)
  /\ UNCHANGED <<dlVars, dbVars, files, remoteFiles, guardVars, sync, pdel>>

GenerateReject(i) ==
  /\ running = Idle
  /\ gen[i].pc = "generate"
  /\ SetGen(i, Throw(gen[i], "GENERATION_FAILED"))
  /\ running' = Me(i)
  /\ UNCHANGED <<dlVars, dbVars, files, remoteFiles, guardVars, sync, pdel>>

\* mutant: the earlier documents are not deleted
persistDocumentKeepsOld(D, E, id, episodeId, markdown, now, prompt, ioError) ==
  LET ins == insertDocument(D, E, id, episodeId, markdown, now, prompt)
  IN [ok |-> ins.ok /\ ~ioError, db |-> ins.rows]

\* the body of the persistence transaction; ioError: the store fails a write
persistDocument(D, E, id, episodeId, markdown, now, prompt, ioError) ==
  LET ins == insertDocument(deleteDocumentsByEpisode(D, episodeId), E, id,
                            episodeId, markdown, now, prompt)
  IN [ok |-> ins.ok /\ ~ioError, db |-> ins.rows]

Persist(i) ==
  /\ running = Me(i)
  /\ gen[i].pc = "persist"
  /\ \E ioError \in BOOLEAN :
       LET r == gen[i]
           work == persistDocument(documents, episodes, nextId, r.episodeId,
                                   r.markdown, clock, r.prompt, ioError)
       IN /\ documents' = transaction(documents, work)
          /\ IF work.ok
             THEN SetGen(i, [r EXCEPT !.pc = "finally",
                               !.pending = Returns(r.markdown),
                               !.outcome = Returns(r.markdown)])
             ELSE SetGen(i, Throw(r, "PERSIST_FAILED"))
          \* generateId(): an id drawn for a write that rolled back is
          \* never seen again
          /\ nextId' = IF work.ok THEN nextId + 1 ELSE nextId
  /\ UNCHANGED <<dlVars, podcasts, episodes, clock, files, remoteFiles, guardVars,
                 sync, pdel, running>>

(***************************************************************************)
(* generateSummary: the finally block                                      *)
(***************************************************************************)
\* mutant: a cleanup error escapes the finally block
swallowRethrows(pending, cleanupThrew) ==
  IF cleanupThrew THEN Throws("CLEANUP_FAILED") ELSE pending

\* what the inner try/catch of a cleanup action lets through
swallow(pending, cleanupThrew) == pending

\* mutant: the local file is never deleted
cleanupLocalNever(F, localAudio, unlinkOk) == [files |-> F, threw |-> FALSE]

\* mutant: the local file is deleted whether or not it is ephemeral
cleanupLocalAlways(F, localAudio, unlinkOk) ==
  IF existsSync(F, localAudio.path)
  THEN IF unlinkOk
       THEN [files |-> unlinkSync(F, localAudio.path), threw |-> FALSE]
       ELSE [files |-> F, threw |-> TRUE]
  ELSE [files |-> F, threw |-> FALSE]

\* Cleanup 2: delete the local file when it is ephemeral and still there
cleanupLocal(F, localAudio, unlinkOk) ==
  IF localAudio.isEphemeral /\ existsSync(F, localAudio.path)
  THEN IF unlinkOk
       THEN [files |-> unlinkSync(F, localAudio.path), threw |-> FALSE]
       ELSE [files |-> F, threw |-> TRUE]
  ELSE [files |-> F, threw |-> FALSE]

\* Cleanup 2 and the return to the caller, for invocation record r
CleanupLocal(i, r, unlinkOk) ==
  LET c == cleanupLocal(files, r.localAudio, unlinkOk)
  IN /\ files' = c.files
     /\ SetGen(i, [r EXCEPT !.pc = "returned",
                     !.pending = swallow(@, c.threw),
                     !.localThrew = c.threw])

Finally(i) ==
  /\ running = Me(i)
  /\ gen[i].pc = "finally"
  /\ isGenerating' = completeGeneration.isGenerating
  /\ generatingEpisodeId' = completeGeneration.generatingEpisodeId
  /\ LET r == [gen[i] EXCEPT !.prompt = "", !.markdown = "", !.polls = 0,
                             !.elapsed = 0, !.promptAtUpload = ""]
     IN IF r.geminiFileName # NoName
        THEN /\ SetGen(i, [r EXCEPT !.pc = "cleanup_remote",
                             !.remoteDeletes = @ + 1])
             /\ running' = Idle
             /\ UNCHANGED files
        ELSE /\ \E unlinkOk \in BOOLEAN : CleanupLocal(i, r, unlinkOk)
             /\ UNCHANGED running
  /\ UNCHANGED <<dlVars, dbVars, remoteFiles, sync, pdel>>

DeleteRemoteResolve(i) ==
  /\ running = Idle
  /\ gen[i].pc = "cleanup_remote"
  /\ remoteFiles' = remoteFiles \ {gen[i].geminiFileName}
  /\ \E unlinkOk \in BOOLEAN : CleanupLocal(i, gen[i], unlinkOk)
  /\ running' = Me(i)
  /\ UNCHANGED <<dlVars, dbVars, guardVars, sync, pdel>>

DeleteRemoteReject(i) ==
  /\ running = Idle
  /\ gen[i].pc = "cleanup_remote"
  /\ \E unlinkOk \in BOOLEAN :
       CleanupLocal(i, [gen[i] EXCEPT !.pending = swallow(@, TRUE),
                                      !.remoteThrew = TRUE], unlinkOk)
  /\ running' = Me(i)
  /\ UNCHANGED <<dlVars, dbVars, remoteFiles, guardVars, sync, pdel>>

\* the handler answers its caller with what generateSummary returned or threw
HandlerReturn(i) ==
  /\ running = Me(i)
  /\ gen[i].pc = "returned"
  /\ SetGen(i, GenDone)
  /\ running' = Idle
  /\ UNCHANGED <<dlVars, dbVars, files, remoteFiles, guardVars, sync, pdel>>

(***************************************************************************)
(* Other handlers and the world outside                                    *)
(***************************************************************************)
\* update_custom_prompt -> PodcastService.updateCustomPrompt
UpdateCustomPrompt(pid, prompt) ==
  /\ running = Idle
  /\ podcasts' = updatePodcastPrompt(podcasts, prompt, pid)
  /\ podcasts' # podcasts
  /\ UNCHANGED <<dlVars, episodes, documents, nextId, clock, files, remoteFiles,
                 guardVars, gen, sync, pdel, running>>

\* delete_podcast -> PodcastService.deletePodcast: the rows go at once, the
\* downloaded files are then moved to the trash one by one
DeletePodcast(pid) ==
  /\ running = Idle
  /\ pdel.pc = "idle"
  /\ getPodcastById(podcasts, pid) # {}
  /\ LET db == deletePodcastCascade([podcasts |-> podcasts,
                                     episodes |-> episodes,
                                     documents |-> documents], pid)
         paths == {r.local_file_path :
                     r \in {x \in getEpisodesByPodcast(episodes, pid) :
                              x.is_downloaded # 0
                              /\ TruthyPath(x.local_file_path)}}
     IN /\ podcasts' = db.podcasts
        /\ episodes' = db.episodes
        /\ documents' = db.documents
        /\ pdel' = IF paths = {} THEN PdelIdle
                   ELSE [pc |-> "trash", paths |-> paths]
  /\ UNCHANGED <<dlVars, nextId, clock, files, remoteFiles, guardVars, gen,
                 sync, running>>

TrashItem(path, ok) ==
  /\ running = Idle
  /\ pdel.pc = "trash"
  /\ path \in pdel.paths
  /\ files' = IF existsSync(files, path) /\ ok THEN unlinkSync(files, path)
              ELSE files
  /\ pdel' = IF pdel.paths = {path} THEN PdelIdle
             ELSE [pdel EXCEPT !.paths = @ \ {path}]
  /\ UNCHANGED <<dlVars, dbVars, remoteFiles, guardVars, gen, sync, running>>

\* the user removes a downloaded file outside the application
RemoveFileOutOfBand(path) ==
  /\ running = Idle
  /\ existsSync(files, path)
  /\ path[1] # "tmp"
  /\ files' = unlinkSync(files, path)
  /\ UNCHANGED <<dlVars, dbVars, remoteFiles, guardVars, gen, sync, pdel,
                 running>>

(***************************************************************************)
(* PodcastService.syncPodcast                                              *)
(***************************************************************************)
Sy(s) == <<"sync", s>>
SetSync(s, r) == sync' = [sync EXCEPT ![s] = r]
FreshSync(s) ==
  /\ sync[s].pc = "init"
  /\ \A t \in Syncs : t < s => sync[t].pc # "init"

\* feed.episodes.forEach(upsertEpisode.run) from item k on; statement number
\* failAt of the transaction throws (disk full, SQLITE_BUSY, a value that
\* cannot be bound), 0 = none
RECURSIVE upsertEpisodes(_, _, _, _, _, _)
upsertEpisodes(E, P, eps, k, pid, failAt) ==
  IF k > Len(eps) THEN [ok |-> TRUE, rows |-> E]
  ELSE IF failAt = k + 1 THEN [ok |-> FALSE, rows |-> E]
  ELSE LET w == upsertEpisode(E, P, eps[k].guid, pid, eps[k].title,
                              eps[k].pub_date, eps[k].duration,
                              eps[k].audio_url)
       IN IF w.ok THEN upsertEpisodes(w.rows, P, eps, k + 1, pid, failAt)
          ELSE w

\* mutant: the feed's artwork comes before the persisted one
finalArtworkUrlFeedFirst(artworkUrl, existingArt, feedArt) ==
  IF Truthy(artworkUrl) THEN artworkUrl
  ELSE IF Truthy(feedArt) THEN feedArt
  ELSE IF Truthy(existingArt) THEN existingArt
  ELSE NULL

\* artworkUrl || existing?.artwork_url || feed.podcast.artwork_url || null
finalArtworkUrl(artworkUrl, existingArt, feedArt) ==
  IF Truthy(artworkUrl) THEN artworkUrl
  ELSE IF Truthy(existingArt) THEN existingArt
  ELSE IF Truthy(feedArt) THEN feedArt
  ELSE NULL

\* the function passed to db.transaction: db as it leaves it, and whether it
\* returned (ok) or threw
syncTransactionBody(db, url, artworkUrl, feed, newId, now, failAt) ==
  LET found == getPodcastByFeedUrl(db.podcasts, url)
      hasExisting == found # {}
      existing == CHOOSE r \in found : TRUE
      podcastId == IF hasExisting THEN existing.id ELSE newId
      art == finalArtworkUrl(artworkUrl,
                             IF hasExisting THEN existing.artwork_url
                             ELSE NULL,
                             feed.podcast.artwork_url)
      cp == IF hasExisting /\ Truthy(existing.custom_prompt)
            THEN existing.custom_prompt ELSE NULL
      wp == IF failAt = 1 THEN [ok |-> FALSE, rows |-> db.podcasts]
            ELSE upsertPodcast(db.podcasts, podcastId, feed.podcast.title,
                               url, art, now, cp)
      we == IF wp.ok
            THEN upsertEpisodes(db.episodes, wp.rows, feed.episodes, 1,
                                podcastId, failAt)
            ELSE [ok |-> FALSE, rows |-> db.episodes]
  IN [ok |-> wp.ok /\ we.ok,
      db |-> [podcasts |-> wp.rows, episodes |-> we.rows,
              documents |-> db.documents],
      podcastId |-> podcastId,
      newCount |-> Len(feed.episodes),
      generated |-> ~hasExisting]

\* what a settled fetch hands to syncPodcast
FetchResolved(feed) == [pc |-> "txn", feed |-> feed, result |-> NoPending]
FetchRejected(cause) == [pc |-> "returned", feed |-> NoFeed,
                         result |-> Throws(cause)]
LateEvents == {FetchResolved(feed) : feed \in Feeds}
                \cup {FetchRejected(cause) : cause \in FetchErrors}

\* mutant: a later resolve or reject replaces the outcome
settleAlways(r, o) ==
  [r EXCEPT !.pc = o.pc, !.feed = o.feed, !.result = o.result]

\* resolve(result) / reject(error) of the promise: only the first call counts
settle(r, o) ==
  IF r.pc = "fetching"
  THEN [r EXCEPT !.pc = o.pc, !.feed = o.feed, !.result = o.result]
  ELSE r

\* subscribe_podcast -> syncPodcast: the worker is started, the timer is
\* armed and the promise is awaited
SyncPodcast(s, url, artworkUrl) ==
  /\ running = Idle
  /\ FreshSync(s)
  /\ SetSync(s, [SyncInit EXCEPT !.pc = "fetching", !.url = url,
                                 !.artworkUrl = artworkUrl,
                                 !.worker = "running", !.timer = "armed"])
  /\ UNCHANGED <<dbVars, files, remoteFiles, guardVars, gen, pdel, dlVars,
                 running>>

\* the worker posts a feed: parseRSSInWorker resolves and terminates the
\* worker
FetchResolve(s, feed) ==
  /\ running = Idle
  /\ sync[s].pc = "fetching"
  /\ sync[s].worker = "running"
  /\ SetSync(s, [settle(sync[s], FetchResolved(feed)) EXCEPT
                   !.worker = "terminated"])
  /\ running' = Sy(s)
  /\ UNCHANGED <<dbVars, files, remoteFiles, guardVars, gen, pdel, dlVars>>

\* mutant: a failed fetch is taken for an empty feed
FetchRejectAsEmptyFeed(s, cause) ==
  /\ running = Idle
  /\ sync[s].pc = "fetching"
  /\ SetSync(s, [sync[s] EXCEPT !.pc = "txn"])
  /\ running' = Sy(s)
  /\ UNCHANGED <<dbVars, files, remoteFiles, guardVars, gen, pdel, dlVars>>

\* the worker posts an error or fails: parseRSSInWorker rejects, terminates
\* the worker, and syncPodcast rethrows
FetchReject(s, cause) ==
  /\ running = Idle
  /\ sync[s].pc = "fetching"
  /\ sync[s].worker = "running"
  /\ SetSync(s, [settle(sync[s], FetchRejected(cause)) EXCEPT
                   !.worker = "terminated"])
  /\ running' = Sy(s)
  /\ UNCHANGED <<dbVars, files, remoteFiles, guardVars, gen, pdel, dlVars>>

\* the worker reads the item of the feed it has fetched
WorkerParseItem(s, raw) ==
  /\ sync[s].pc = "fetching"
  /\ sync[s].worker = "running"
  /\ sync[s].raw = <<>>
  /\ SetSync(s, [sync[s] EXCEPT !.raw = raw, !.duration = parseDuration(raw)])
  /\ UNCHANGED <<dbVars, files, remoteFiles, guardVars, gen, pdel, dlVars,
                 running>>

\* time passes for a fetch whose timer is armed, up to the timer's delay
FetchTick(s) ==
  /\ sync[s].timer = "armed"
  /\ sync[s].waited < FetchTimeoutMs
  /\ SetSync(s, [sync[s] EXCEPT !.waited = @ + HttpTimeoutMs])
  /\ UNCHANGED <<dbVars, files, remoteFiles, guardVars, gen, pdel, dlVars,
                 running>>

\* the timer's callback: worker.terminate(), then reject
FetchTimeout(s) ==
  /\ running = Idle
  /\ sync[s].timer = "armed"
  /\ sync[s].waited >= FetchTimeoutMs
  /\ SetSync(s, [settle(sync[s], FetchRejected("RSS_TIMEOUT")) EXCEPT
                   !.worker = "terminated",
                   !.timer = IF sync[s].pc = "fetching" THEN "fired"
                             ELSE "spent"])
  /\ running' = IF sync[s].pc = "fetching" THEN Sy(s) ELSE running
  /\ UNCHANGED <<dbVars, files, remoteFiles, guardVars, gen, pdel, dlVars>>

\* a message or an error of the worker that was under way when the worker
\* was terminated: the handler runs as for the first one
LateEvent(s, o) ==
  /\ running = Idle
  /\ sync[s].worker = "terminated"
  /\ ~sync[s].late
  /\ SetSync(s, [settle(sync[s], o) EXCEPT !.late = TRUE])
  /\ running' = IF sync[s].pc = "fetching" THEN Sy(s) ELSE running
  /\ UNCHANGED <<dbVars, files, remoteFiles, guardVars, gen, pdel, dlVars>>

\* worker.on("exit"): the terminated worker is gone, clearTimeout(timeout)
WorkerExit(s) ==
  /\ running = Idle
  /\ sync[s].worker = "terminated"
  /\ SetSync(s, [sync[s] EXCEPT !.worker = "exited",
                                !.timer = IF @ = "armed" THEN "cleared"
                                          ELSE @,
                                !.waited = 0])
  /\ UNCHANGED <<dbVars, files, remoteFiles, guardVars, gen, pdel, dlVars,
                 running>>

SyncTransaction(s, failAt) ==
  /\ running = Sy(s)
  /\ sync[s].pc = "txn"
  /\ failAt \in 0..(Len(sync[s].feed.episodes) + 1)
  /\ LET before == [podcasts |-> podcasts, episodes |-> episodes,
                    documents |-> documents]
         work == syncTransactionBody(before, sync[s].url,
                                     sync[s].artworkUrl, sync[s].feed,
                                     nextId, clock, failAt)
         after == transaction(before, work)
     IN /\ podcasts' = after.podcasts
        /\ episodes' = after.episodes
        /\ documents' = after.documents
        /\ nextId' = IF work.ok /\ work.generated THEN nextId + 1
                     ELSE nextId
        /\ clock' = clock + 1
        /\ SetSync(s, [sync[s] EXCEPT
                         !.pc = "returned", !.failAt = failAt,
                         !.result =
                            IF work.ok
                            THEN Returns([podcastId |-> work.podcastId,
                                          newCount |-> work.newCount])
                            ELSE Throws("SQLITE_ERROR")])
  /\ UNCHANGED <<files, remoteFiles, guardVars, gen, pdel, dlVars, running>>

\* the handler sends feed_synced and answers its caller
SyncReturn(s) ==
  /\ running = Sy(s)
  /\ sync[s].pc = "returned"
  /\ SetSync(s, [SyncDone EXCEPT !.worker = sync[s].worker,
                                 !.timer = sync[s].timer,
                                 !.waited = sync[s].waited,
                                 !.late = sync[s].late])
  /\ running' = Idle
  /\ UNCHANGED <<dbVars, files, remoteFiles, guardVars, gen, pdel, dlVars>>

SyncStep(s) ==
  \/ \E url \in FeedUrls, art \in {NULL, "art2"} : SyncPodcast(s, url, art)
  \/ \E feed \in Feeds : FetchResolve(s, feed)
  \/ \E cause \in FetchErrors : FetchReject(s, cause)
  \/ \E failAt \in 0..(Len(sync[s].feed.episodes) + 1) :
       SyncTransaction(s, failAt)
  \/ SyncReturn(s)

(***************************************************************************)
(* download_episode -> AudioService.downloadToPersistent                   *)
(***************************************************************************)
Dl(d) == <<"dl", d>>
SetDl(d, r) == dl' = [dl EXCEPT ![d] = r]
FreshDl(d) ==
  /\ dl[d].pc = "init"
  /\ \A c \in Downloads : c < d => dl[c].pc # "init"
DlThrow(r, err) == [r EXCEPT !.pc = "returned", !.result = Throws(err)]

DownloadToPersistent(d, episodeId, podcastTitle) ==
  /\ running = Idle
  /\ FreshDl(d)
  /\ LET found == getEpisodeById(episodes, episodeId)
         episode == CHOOSE r \in found : TRUE
     IN IF found = {}
        THEN /\ SetDl(d, DlThrow([DlInit EXCEPT !.episodeId = episodeId],
                                 "EPISODE_NOT_FOUND"))
             /\ running' = Dl(d)
        ELSE /\ SetDl(d, [DlInit EXCEPT
                            !.pc = "request", !.episodeId = episodeId,
                            !.destPath = destPath(podcastTitle,
                                                  episode.title),
                            !.url = episode.audio_url])
             /\ UNCHANGED running
  /\ UNCHANGED <<dbVars, files, remoteFiles, guardVars, gen, sync, pdel,
                 ddel>>

PdlResponse(d) ==
  /\ running = Idle
  /\ dl[d].pc = "request"
  /\ files' = createWriteStream(files, dl[d].destPath)
  /\ SetDl(d, [dl[d] EXCEPT !.pc = "stream", !.opened = TRUE,
                            !.replaced = existsSync(files, dl[d].destPath)
                                         /\ files[dl[d].destPath] > 0])
  /\ UNCHANGED <<dbVars, remoteFiles, guardVars, gen, sync, pdel, ddel,
                 running>>

PdlRequestError(d) ==
  /\ running = Idle
  /\ dl[d].pc = "request"
  /\ SetDl(d, DlThrow(dl[d], "DOWNLOAD_FAILED"))
  /\ running' = Dl(d)
  /\ UNCHANGED <<dbVars, files, remoteFiles, guardVars, gen, sync, pdel,
                 ddel>>

PdlFinish(d, size) ==
  /\ running = Idle
  /\ dl[d].pc = "stream"
  /\ files' = pipeBody(files, dl[d].destPath, size)
  /\ SetDl(d, [dl[d] EXCEPT !.pc = "verify"])
  /\ UNCHANGED <<dbVars, remoteFiles, guardVars, gen, sync, pdel, ddel,
                 running>>

PdlStreamError(d, unlinkOk) ==
  /\ running = Idle
  /\ dl[d].pc = "stream"
  /\ files' = cleanupPartial(files, dl[d].destPath, unlinkOk)
  /\ SetDl(d, DlThrow([dl[d] EXCEPT !.unlinkThrew =
                                     existsSync(files, dl[d].destPath)
                                     /\ ~unlinkOk],
                      "DOWNLOAD_FAILED"))
  /\ running' = Dl(d)
  /\ UNCHANGED <<dbVars, remoteFiles, guardVars, gen, sync, pdel, ddel>>

\* setImmediate callback, then the rest of downloadToPersistent
PdlVerify(d) ==
  /\ running = Idle
  /\ dl[d].pc = "verify"
  /\ LET v == verifyDownload(files, dl[d].destPath)
     IN IF v = "ok"
        THEN /\ episodes' = updateEpisodeDownloadStatus(
                              episodes, 1, dl[d].destPath, dl[d].episodeId)
             /\ SetDl(d, [dl[d] EXCEPT !.pc = "returned",
                                       !.result = Returns(dl[d].destPath)])
        ELSE /\ SetDl(d, DlThrow(dl[d], v))
             /\ UNCHANGED episodes
  /\ running' = Dl(d)
  /\ UNCHANGED <<podcasts, documents, nextId, clock, files, remoteFiles,
                 guardVars, gen, sync, pdel, ddel>>

PdlReturn(d) ==
  /\ running = Dl(d)
  /\ dl[d].pc = "returned"
  /\ SetDl(d, DlDone)
  /\ running' = Idle
  /\ UNCHANGED <<dbVars, files, remoteFiles, guardVars, gen, sync, pdel,
                 ddel>>

DownloadStep(d) ==
  \/ \E e \in EpisodeIds, t \in PodTitles : DownloadToPersistent(d, e, t)
  \/ PdlResponse(d)
  \/ PdlRequestError(d)
  \/ \E size \in FileSizesMB : PdlFinish(d, size)
  \/ \E ok \in BOOLEAN : PdlStreamError(d, ok)
  \/ PdlVerify(d)
  \/ PdlReturn(d)

(***************************************************************************)
(* delete_download -> AudioService.deleteDownload, then the file is moved  *)
(* to the trash                                                            *)
(***************************************************************************)
\* mutant: the path is returned and the row is left as it is
deleteDownloadKeepsRow(E, episodeId) ==
  LET found == getEpisodeById(E, episodeId)
      episode == CHOOSE r \in found : TRUE
  IN IF found = {} \/ ~TruthyPath(episode.local_file_path)
     THEN [filePath |-> NoPath, episodes |-> E]
     ELSE [filePath |-> episode.local_file_path, episodes |-> E]

deleteDownload(E, episodeId) ==
  LET found == getEpisodeById(E, episodeId)
      episode == CHOOSE r \in found : TRUE
  IN IF found = {} \/ ~TruthyPath(episode.local_file_path)
     THEN [filePath |-> NoPath, episodes |-> E]
     ELSE [filePath |-> episode.local_file_path,
           episodes |-> updateEpisodeDownloadStatus(E, 0, NoPath,
                                                    episodeId)]

DeleteDownload(episodeId) ==
  /\ running = Idle
  /\ LET r == deleteDownload(episodes, episodeId)
     IN /\ TruthyPath(r.filePath)
        /\ \A x \in ddel : x.filePath # r.filePath
        /\ episodes' = r.episodes
        /\ ddel' = ddel \cup {[episodeId |-> episodeId,
                               filePath |-> r.filePath,
                               result |-> NoPending]}
  /\ UNCHANGED <<podcasts, documents, nextId, clock, files, remoteFiles,
                 guardVars, gen, sync, pdel, dl, running>>

\* audio.trashFile(filePath) is not among the sources: as shell.trashItem in
\* deletePodcast, it moves the file to the trash, and the handler takes a
\* false answer for a failure
TrashFile(x, trashed) ==
  /\ running = Idle
  /\ x \in ddel
  /\ x.result = NoPending
  /\ files' = IF existsSync(files, x.filePath) /\ trashed
              THEN unlinkSync(files, x.filePath) ELSE files
  /\ ddel' = (ddel \ {x})
               \cup {[x EXCEPT !.result = IF trashed THEN Returns("")
                                          ELSE Throws("TRASH_FAILED")]}
  /\ running' = <<"ddel", x.filePath>>
  /\ UNCHANGED <<dbVars, remoteFiles, guardVars, gen, sync, pdel, dl>>

\* the handler answers its caller
DeleteDownloadReturn(x) ==
  /\ running = <<"ddel", x.filePath>>
  /\ x \in ddel
  /\ x.result # NoPending
  /\ ddel' = ddel \ {x}
  /\ running' = Idle
  /\ UNCHANGED <<dbVars, files, remoteFiles, guardVars, gen, sync, pdel, dl>>

DeleteDownloadStep ==
  \/ \E e \in EpisodeIds : DeleteDownload(e)
  \/ \E x \in ddel, trashed \in BOOLEAN : TrashFile(x, trashed)
  \/ \E x \in ddel : DeleteDownloadReturn(x)

GenStep(i) ==
  \/ \E e \in EpisodeIds : HandlerReject(i, e)
  \/ \E e \in EpisodeIds : GenerateSummary(i, e)
  \/ ProvisionAudio(i)
  \/ DlResponse(i)
  \/ DlRequestError(i)
  \/ \E size \in FileSizesMB : DlFinish(i, size)
  \/ \E ok \in BOOLEAN : DlStreamError(i, ok)
  \/ DlVerify(i)
  \/ SizeCheck(i)
  \/ \E named \in BOOLEAN : UploadResolve(i, named)
  \/ UploadReject(i)
  \/ \E st \in FileStates, lat \in GetFileLatencyMs : PollResolve(i, st, lat)
  \/ PollReject(i)
  \/ GetPrompt(i)
  \/ \E text \in Texts : GenerateResolve(i, text)
  \/ GenerateReject(i)
  \/ Persist(i)
  \/ Finally(i)
  \/ DeleteRemoteResolve(i)
  \/ DeleteRemoteReject(i)
  \/ HandlerReturn(i)

\* the summary workflow when every request it makes to the outside fails:
\* provisioning (with its self-healing reset), then cleanup
GenOfflineStep(i) ==
  \/ \E e \in EpisodeIds : GenerateSummary(i, e)
  \/ ProvisionAudio(i)
  \/ DlRequestError(i)
  \/ SizeCheck(i)
  \/ UploadReject(i)
  \/ Finally(i)
  \/ HandlerReturn(i)

EnvStep ==
  \/ \E r \in podcasts, prompt \in Prompts : UpdateCustomPrompt(r.id, prompt)
  \/ \E r \in podcasts : DeletePodcast(r.id)
  \/ \E path \in DOMAIN files, ok \in BOOLEAN : TrashItem(path, ok)
  \/ \E path \in DOMAIN files : RemoveFileOutOfBand(path)

Next == (\E i \in Invocations : GenStep(i)) \/ EnvStep

Spec == Init /\ [][Next]_vars

\* feed synchronisation next to the operations that own the download fields
\* and the custom prompt (one summary: a second one would be refused)
NextSync ==
  \/ \E s \in Syncs : SyncStep(s)
  \/ \E d \in Downloads : DownloadStep(d)
  \/ DeleteDownloadStep
  \/ GenOfflineStep(1)
  \/ \E r \in podcasts, prompt \in Prompts : UpdateCustomPrompt(r.id, prompt)
  \/ \E path \in DOMAIN files : RemoveFileOutOfBand(path)

SpecSync == Init /\ [][NextSync]_vars

\* persistent downloads of an episode of any title, for a podcast title of
\* the caller's choice
InitPath ==
  /\ podcasts = SeedPodcasts
  /\ \E t \in TitleInputs :
       episodes = {[id |-> "e1", podcast_id |-> 1, title |-> t,
                    pub_date |-> 1, duration |-> 90, audio_url |-> "a1",
                    is_downloaded |-> 0, local_file_path |-> NoPath]}
  /\ nextId = 2
  /\ clock = 2
  /\ files = <<>>
  /\ documents = {}
  /\ remoteFiles = {}
  /\ isGenerating = FALSE
  /\ generatingEpisodeId = NoEpisode
  /\ gen = [i \in Invocations |-> GenInit]
  /\ sync = [s \in Syncs |-> SyncInit]
  /\ pdel = PdelIdle
  /\ dl = [d \in Downloads |-> DlInit]
  /\ ddel = {}
  /\ running = Idle

NextPath ==
  \E d \in Downloads :
    \/ \E e \in EpisodeIds, t \in TitleInputs : DownloadToPersistent(d, e, t)
    \/ PdlResponse(d)
    \/ PdlRequestError(d)
    \/ \E size \in FileSizesMB : PdlFinish(d, size)
    \/ \E ok \in BOOLEAN : PdlStreamError(d, ok)
    \/ PdlVerify(d)
    \/ PdlReturn(d)

SpecPath == InitPath /\ [][NextPath]_vars

\* persistent downloads and delete_download over a vault that holds e2
\* ("Ep#2"), for an episode e1 whose title is "Ep 1" or differs from e2's in
\* one character outside the allow-list
TitleC == <<"E", "p", "?", "2">>
InitVault ==
  /\ podcasts = SeedPodcasts
  /\ \E t \in {TitleA, TitleC} :
       episodes = {[r EXCEPT !.title = IF r.id = "e1" THEN t ELSE @] :
                     r \in SeedEpisodes}
  /\ nextId = 2
  /\ clock = 2
  /\ files = [p \in {VaultPath} |-> 100]
  /\ documents = {}
  /\ remoteFiles = {}
  /\ isGenerating = FALSE
  /\ generatingEpisodeId = NoEpisode
  /\ gen = [i \in Invocations |-> GenInit]
  /\ sync = [s \in Syncs |-> SyncInit]
  /\ pdel = PdelIdle
  /\ dl = [d \in Downloads |-> DlInit]
  /\ ddel = {}
  /\ running = Idle

NextVault ==
  \/ \E d \in Downloads : DownloadStep(d)
  \/ DeleteDownloadStep

SpecVault == InitVault /\ [][NextVault]_vars

\* syncs of two feed URLs whose feeds carry the same item guids
SharedFeedUrls == {"u1", "u2"}
NextShared ==
  \E s \in Syncs :
    \/ \E url \in SharedFeedUrls : SyncPodcast(s, url, NULL)
    \/ \E feed \in Feeds : FetchResolve(s, feed)
    \/ \E cause \in FetchErrors : FetchReject(s, cause)
    \/ \E failAt \in 0..(Len(sync[s].feed.episodes) + 1) :
         SyncTransaction(s, failAt)
    \/ SyncReturn(s)

SpecShared == Init /\ [][NextShared]_vars

\* feed synchronisation alone, with the worker's and the timer's events
FetchStep(s) ==
  \/ SyncStep(s)
  \/ FetchTick(s)
  \/ FetchTimeout(s)
  \/ \E o \in LateEvents : LateEvent(s, o)
  \/ WorkerExit(s)

NextFetch == \E s \in Syncs : FetchStep(s)

\* one feed synchronisation with the items the worker reads
NextDuration ==
  \/ SyncStep(1)
  \/ \E raw \in DurationInputs : WorkerParseItem(1, raw)

SpecDuration == Init /\ [][NextDuration]_vars

\* time passes, timers fire and the event loop runs every continuation
FetchProgress(s) ==
  \/ FetchTick(s)
  \/ FetchTimeout(s)
  \/ \E failAt \in 0..(Len(sync[s].feed.episodes) + 1) :
       SyncTransaction(s, failAt)
  \/ SyncReturn(s)

SpecFetch ==
  Init /\ [][NextFetch]_vars /\ \A s \in Syncs : WF_vars(FetchProgress(s))

\* every external call of the workflow eventually returns or fails, and the
\* event loop runs every continuation
GenProgress(i) ==
  \/ ProvisionAudio(i)
  \/ DlResponse(i)
  \/ DlRequestError(i)
  \/ \E size \in FileSizesMB : DlFinish(i, size)
  \/ DlVerify(i)
  \/ SizeCheck(i)
  \/ \E named \in BOOLEAN : UploadResolve(i, named)
  \/ \E st \in FileStates, lat \in GetFileLatencyMs : PollResolve(i, st, lat)
  \/ GetPrompt(i)
  \/ \E text \in Texts : GenerateResolve(i, text)
  \/ Persist(i)
  \/ Finally(i)
  \/ DeleteRemoteResolve(i)
  \/ HandlerReturn(i)

FairSpec == Spec /\ \A i \in Invocations : WF_vars(GenProgress(i))

(***************************************************************************)
(* Properties of the summary workflow                                      *)
(***************************************************************************)
WorkflowPcs == {"provision", "dl_request", "dl_stream", "dl_verify",
                "sizecheck", "upload", "poll", "prompt", "generate",
                "persist"}
InWorkflow(i) == gen[i].pc \in WorkflowPcs
Holding(i) == gen[i].pc \in WorkflowPcs \cup {"finally"}
RejectedCall(i) == gen[i].pc = "returned" /\ ~gen[i].acquired
ReturnedCall(i) == gen[i].pc = "returned" /\ gen[i].acquired

\* C1: single-flight.  No two invocations execute workflow steps (provision
\* ... persist) at the same time; an invocation is refused exactly with
\* ALREADY_GENERATING, and only while another one holds the guard.
C1_SingleFlight ==
  /\ \A i, j \in Invocations : i # j => ~(InWorkflow(i) /\ InWorkflow(j))
  /\ \A i \in Invocations :
       RejectedCall(i) =>
         /\ gen[i].pending = Throws("ALREADY_GENERATING")
         /\ \E j \in Invocations \ {i} : Holding(j)

C1_Witness ==
  \E i, j \in Invocations :
    /\ RejectedCall(i)
    /\ gen[j].pc = "upload"
    /\ gen[i].episodeId # gen[j].episodeId

\* C2: a request made while the orchestrator is Generating is refused with
\* ALREADY_GENERATING in the same step, and that step and the refused
\* invocation's return leave the flag, the recorded episode id, the store,
\* the disk and the remote files as they were; it issued no request.
C2_RejectedNoEffect ==
  [][\A i \in Invocations :
       /\ (isGenerating /\ gen[i].pc = "init" /\ gen'[i].pc # "init") =>
            /\ gen'[i].pc = "returned"
            /\ gen'[i].pending = Throws("ALREADY_GENERATING")
            /\ gen'[i].audioRequests + gen'[i].uploads
                 + gen'[i].generations + gen'[i].remoteDeletes = 0
            /\ UNCHANGED <<dbVars, files, remoteFiles, guardVars>>
       /\ RejectedCall(i) =>
            UNCHANGED <<dbVars, files, remoteFiles, guardVars>>]_vars

C2_Witness ==
  \E i, j \in Invocations :
    /\ RejectedCall(i)
    /\ gen[j].pc = "generate"
    /\ isGenerating
    /\ generatingEpisodeId = gen[j].episodeId
    /\ generatingEpisodeId # gen[i].episodeId

\* C3: the flag is set exactly when an episode id is recorded, exactly while
\* an invocation holds the guard, and the id is that invocation's episode;
\* whenever the flag is set it is eventually reset (Idle).
C3_GuardState ==
  /\ isGenerating <=> generatingEpisodeId # NoEpisode
  /\ isGenerating <=> \E i \in Invocations : Holding(i)
  /\ \A i \in Invocations :
       Holding(i) => generatingEpisodeId = gen[i].episodeId

C3_BackToIdle == []C3_GuardState /\ (isGenerating ~> ~isGenerating)

C3_Witness ==
  \E i \in Invocations :
    /\ ReturnedCall(i)
    /\ gen[i].pending = Throws("UPLOAD_FAILED")
    /\ ~isGenerating
    /\ generatingEpisodeId = NoEpisode

\* C4: when a guard-holding invocation has returned, the remote deletion was
\* requested once if the upload returned a handle and not at all otherwise,
\* and an ephemeral local file is gone unless its deletion threw.
C4_Cleanup ==
  \A i \in Invocations :
    ReturnedCall(i) =>
      /\ gen[i].remoteDeletes = IF gen[i].handle # NoName THEN 1 ELSE 0
      /\ (gen[i].localAudio.isEphemeral /\ ~gen[i].localThrew) =>
           ~existsSync(files, gen[i].localAudio.path)

C4_Witness ==
  \E i \in Invocations :
    /\ ReturnedCall(i)
    /\ gen[i].pending = Throws("GENERATION_FAILED")
    /\ gen[i].handle # NoName
    /\ gen[i].remoteDeletes = 1
    /\ gen[i].localAudio.isEphemeral
    /\ ~existsSync(files, gen[i].localAudio.path)
    /\ gen[i].handle \notin remoteFiles

\* C5: what the caller receives is what the try block produced, whether or
\* not a cleanup action threw.
C5_CleanupNeverMasks ==
  \A i \in Invocations :
    gen[i].pc = "returned" =>
      /\ gen[i].pending = gen[i].outcome
      /\ gen[i].pending.kind \in {"return", "throw"}

C5_Witness ==
  \E i \in Invocations :
    /\ ReturnedCall(i)
    /\ gen[i].remoteThrew
    /\ gen[i].localThrew
    /\ gen[i].pending.kind = "return"

\* C10: provisioning an episode that is marked downloaded and whose recorded
\* file exists yields that path with isEphemeral = FALSE, sends no request
\* and leaves disk and store as they were.
VaultHit(e) ==
  \E r \in getEpisodeById(episodes, e) :
    /\ r.is_downloaded # 0
    /\ TruthyPath(r.local_file_path)
    /\ existsSync(files, r.local_file_path)

C10_VaultFirst ==
  [][\A i \in Invocations :
       (gen[i].pc = "provision" /\ VaultHit(gen[i].episodeId)
          /\ gen'[i] # gen[i]) =>
         /\ \E r \in getEpisodeById(episodes, gen[i].episodeId) :
              gen'[i].localAudio = [path |-> r.local_file_path,
                                    isEphemeral |-> FALSE]
         /\ gen'[i].audioRequests = 0
         /\ gen'[i].pc = "sizecheck"
         /\ UNCHANGED <<dbVars, files, remoteFiles>>]_vars

C10_Witness ==
  \E i \in Invocations :
    /\ gen[i].pc = "sizecheck"
    /\ gen[i].localAudio = [path |-> VaultPath, isEphemeral |-> FALSE]
    /\ gen[i].audioRequests = 0
    /\ VaultHit(gen[i].episodeId)

\* C11: provisioning an episode that is marked downloaded and whose recorded
\* file is missing clears is_downloaded and local_file_path in the same step
\* that sends the download request for the temp path; the steps of that
\* download leave the episodes as they are, whether it fails or succeeds,
\* and a successful one yields the temp path with isEphemeral = TRUE.
VaultMissing(e) ==
  \E r \in getEpisodeById(episodes, e) :
    /\ r.is_downloaded # 0
    /\ TruthyPath(r.local_file_path)
    /\ ~existsSync(files, r.local_file_path)

DownloadPcs == {"dl_request", "dl_stream", "dl_verify"}

C11_SelfHeal ==
  [][\A i \in Invocations :
       /\ (gen[i].pc = "provision" /\ VaultMissing(gen[i].episodeId)
             /\ gen'[i] # gen[i]) =>
            /\ \A q \in getEpisodeById(episodes', gen[i].episodeId) :
                 q.is_downloaded = 0 /\ q.local_file_path = NoPath
            /\ getEpisodeById(episodes', gen[i].episodeId) # {}
            /\ \A r \in episodes :
                 r.id # gen[i].episodeId => r \in episodes'
            /\ gen'[i].pc = "dl_request"
            /\ gen'[i].audioRequests = 1
            /\ ~existsSync(files', TempPath(gen[i].episodeId))
                 \/ existsSync(files, TempPath(gen[i].episodeId))
       /\ (gen[i].pc \in DownloadPcs /\ gen'[i] # gen[i]) =>
            /\ UNCHANGED episodes
            /\ gen'[i].pc = "sizecheck" =>
                 gen'[i].localAudio = [path |-> TempPath(gen[i].episodeId),
                                       isEphemeral |-> TRUE]]_vars

C11_Witness ==
  \E i \in Invocations :
    /\ gen[i].pc = "finally"
    /\ gen[i].pending = Throws("DOWNLOAD_FAILED")
    /\ gen[i].audioRequests = 1
    /\ ~existsSync(files, VaultPath)
    /\ \E r \in getEpisodeById(episodes, gen[i].episodeId) :
         r.is_downloaded = 0 /\ r.local_file_path = NoPath /\ r.id = "e2"

\* C12: a size check that finds more than 2000 MB ends the workflow with
\* FILE_TOO_LARGE, and only such a check does; that invocation has then made
\* no upload, poll, generation or remote deletion request, none of its steps
\* from the size check on writes a table, an ephemeral file is still on disk
\* when the error is raised and is gone at the return unless its unlink threw.
TooLargeRaised(i) == gen[i].outcome = Throws("FILE_TOO_LARGE")

C13_OneDocument ==
  [][\A i \in Invocations :
       (gen[i].pc = "persist" /\ gen'[i].outcome.kind = "return") =>
         /\ \E d \in documents' :
              /\ getDocumentsByEpisode(documents', gen[i].episodeId) = {d}
              /\ d \notin documents
              /\ d.content = gen'[i].outcome.value
              /\ d.content = gen'[i].pending.value
              /\ d.used_prompt = gen[i].prompt
         /\ {x \in documents : x.episode_id # gen[i].episodeId}
              = {x \in documents' : x.episode_id # gen[i].episodeId}]_vars

C13_Witness ==
  \E i \in Invocations :
    /\ gen[i].pc = "finally"
    /\ gen[i].outcome = Returns("md2")
    /\ \E d \in documents :
         /\ documents = {d}
         /\ d.id = 3
         /\ d.episode_id = gen[i].episodeId
         /\ d.content = "md2"
         /\ d.used_prompt = "c1"

\* C14 as stated: polling ends in one of three ways only, ACTIVE, the
\* processing-failed error or the timeout error.
PollingFailed(i) == gen[i].pc = "finally" /\ gen[i].polls >= 1

C14_PollState ==
  \A i \in Invocations :
    /\ gen[i].pc = "poll" =>
         /\ gen[i].polls >= 1
         /\ gen[i].elapsed < 60000
         /\ gen[i].elapsed >= 2000 * (gen[i].polls - 1)
         /\ gen[i].polls <= 30
         /\ gen[i].fileState \in {"", "PROCESSING"}
         /\ gen[i].generations = 0
    /\ (gen[i].pc \in {"prompt", "generate", "persist"}
          \/ gen[i].generations > 0) => gen[i].fileState = "ACTIVE"
    /\ PollingFailed(i) =>
         /\ gen[i].polls <= 30
         /\ gen[i].generations = 0
         /\ \/ /\ gen[i].fileState = "FAILED"
               /\ gen[i].outcome = Throws("PROCESSING_FAILED")
            \/ /\ gen[i].fileState = "REJECTED"
               /\ gen[i].outcome = Throws("POLL_ERROR")
            \/ /\ gen[i].fileState = "PROCESSING"
               /\ gen[i].elapsed >= 60000
               /\ gen[i].outcome = Throws("POLL_TIMEOUT")

C15_NoArtifact ==
  \A d \in Downloads :
    dl[d].pc = "returned" =>
      /\ (dl[d].result.kind = "throw" /\ dl[d].opened
            /\ ~dl[d].unlinkThrew) =>
           ~existsSync(files, dl[d].destPath)
      /\ dl[d].result.kind = "return" =>
           /\ existsSync(files, dl[d].destPath)
           /\ files[dl[d].destPath] > 0

\* some row of the database refers to the file at this path
Referenced(E, path) == \E r \in E : r.local_file_path = path

Tables == <<podcasts, episodes, documents>>
SyncCommits(s) ==
  /\ sync[s].pc = "txn"
  /\ sync'[s].pc = "returned"
  /\ sync'[s].result.kind = "return"
SyncAborts(s) ==
  /\ sync[s].pc = "txn"
  /\ sync'[s].pc = "returned"
  /\ sync'[s].result.kind = "throw"
InFeed(feed, id) == \E k \in 1..Len(feed.episodes) : feed.episodes[k].guid = id
\* the item of the feed that is written last under guid id
LastItem(feed, id) ==
  LET ks == {k \in 1..Len(feed.episodes) : feed.episodes[k].guid = id}
  IN feed.episodes[CHOOSE k \in ks : \A j \in ks : j <= k]

\* C6: a step of a sync leaves is_downloaded and local_file_path of every
\* stored episode as they were; when its transaction commits, an episode
\* that is in the feed has the feed's title, duration and audio_url.
C6_SyncKeepsDownloadFields ==
  [][\A s \in Syncs :
       sync'[s] # sync[s] =>
         \A r \in episodes :
           \E q \in episodes' :
             /\ q.id = r.id
             /\ q.is_downloaded = r.is_downloaded
             /\ q.local_file_path = r.local_file_path
             /\ (SyncCommits(s) /\ InFeed(sync[s].feed, r.id)) =>
                  LET item == LastItem(sync[s].feed, r.id)
                  IN /\ q.title = item.title
                     /\ q.duration = item.duration
                     /\ q.audio_url = item.audio_url]_vars

C6_Witness ==
  \E s \in Syncs :
    /\ sync[s].pc = "returned"
    /\ sync[s].result.kind = "return"
    /\ sync[s].feed = FeedB
    /\ \E r \in episodes :
         /\ r.id = "e2"
         /\ r.title = TitleA /\ r.duration = 120 /\ r.audio_url = "a1"
         /\ r.is_downloaded = 1
         /\ r.local_file_path = VaultPath

\* C7: the transaction of a sync throws exactly when one of its statements
\* failed, and then the three tables are as they were before it.
C7_SyncAtomic ==
  [][\A s \in Syncs :
       (sync[s].pc = "txn" /\ sync'[s] # sync[s]) =>
         /\ sync'[s].pc = "returned"
         /\ SyncAborts(s) <=> sync'[s].failAt # 0
         /\ SyncCommits(s) <=> sync'[s].failAt = 0
         /\ SyncAborts(s) => UNCHANGED Tables]_vars

C7_Witness ==
  \E s \in Syncs :
    /\ sync[s].pc = "returned"
    /\ sync[s].result.kind = "throw"
    /\ sync[s].feed = FeedB
    /\ sync[s].failAt = Len(FeedB.episodes) + 1
    /\ podcasts = SeedPodcasts
    /\ episodes = SeedEpisodes

\* C8: a step of a sync changes the tables only from its transaction, which
\* it enters holding a fetched feed; a failed fetch ends the sync with the
\* fetch error and the tables unchanged.
C8_FetchBeforeWrite ==
  [][\A s \in Syncs :
       sync'[s] # sync[s] =>
         /\ Tables' # Tables =>
              sync[s].pc = "txn" /\ sync[s].feed \in Feeds
         /\ sync'[s].pc = "txn" =>
              sync[s].pc = "fetching" /\ sync'[s].feed \in Feeds
         /\ (sync[s].pc = "fetching" /\ sync'[s].pc # "txn") =>
              /\ sync'[s].pc = "returned"
              /\ sync'[s].result.kind = "throw"
              /\ sync'[s].result.value \in FetchErrors
              /\ UNCHANGED Tables]_vars

C8_Witness ==
  \E s \in Syncs :
    /\ sync[s].pc = "returned"
    /\ sync[s].result = Throws("TIMEOUT")
    /\ sync[s].feed = NoFeed
    /\ podcasts = {} /\ episodes = {} /\ documents = {}

\* C9: a step that changes the custom_prompt of a stored podcast is an
\* updateCustomPrompt; a sync keeps id, feed_url and custom_prompt of every
\* stored podcast, and when it commits for a stored feed URL it returns that
\* podcast's id and has set title and last_fetched_at.
C9_PromptOwnedByUser ==
  [][/\ (\E r \in podcasts, q \in podcasts' :
            q.id = r.id /\ q.custom_prompt # r.custom_prompt) =>
          \E pid \in {r.id : r \in podcasts}, prompt \in Prompts :
            UpdateCustomPrompt(pid, prompt)
     /\ \A s \in Syncs :
          sync'[s] # sync[s] =>
            \A r \in podcasts :
              \E q \in podcasts' :
                /\ q.id = r.id
                /\ q.feed_url = r.feed_url
                /\ q.custom_prompt = r.custom_prompt
                /\ (SyncCommits(s) /\ r.feed_url = sync[s].url) =>
                     /\ sync'[s].result.value.podcastId = r.id
                     /\ q.title = sync[s].feed.podcast.title
                     /\ q.last_fetched_at = clock
                /\ ~(SyncCommits(s) /\ r.feed_url = sync[s].url) => q = r
    ]_vars

C9_Witness ==
  \E s \in Syncs :
    /\ sync[s].pc = "returned"
    /\ sync[s].result.kind = "return"
    /\ sync[s].result.value.podcastId = 1
    /\ \E r \in podcasts :
         /\ r.id = 1
         /\ r.custom_prompt = "c1"
         /\ r.title = PodTitle2
         /\ r.artwork_url = "art2"
         /\ r.last_fetched_at > 1

(***************************************************************************)
(* Properties of the feed fetch                                            *)
(***************************************************************************)
\* a fetch whose promise is settled
Settled(s) == sync[s].pc \in {"txn", "returned", "done"}
Outcome(r) == <<r.pc, r.feed, r.result>>

\* C17: a fetch settles exactly once and no later than the 30 s timer.  While
\* it is unsettled its worker runs and its timer is armed with at most 30 s
\* gone; it settles in time; the first event fixes the outcome (a feed: the
\* transaction follows; an error or the timer: the call throws and nothing
\* is written); the worker is terminated once the fetch is settled; and an
\* event after the first (a feed after the timeout among them) changes
\* neither the outcome nor the database.
C17_FetchSettlesOnce ==
  /\ [](\A s \in Syncs :
          /\ sync[s].pc = "fetching" =>
               /\ sync[s].worker = "running"
               /\ sync[s].timer = "armed"
               /\ sync[s].waited <= FetchTimeoutMs
          /\ Settled(s) => sync[s].worker \in {"terminated", "exited"}
          /\ sync[s].timer = "fired" /\ sync[s].pc = "returned" =>
               sync[s].result = Throws("RSS_TIMEOUT"))
  /\ [][\A s \in Syncs :
          /\ sync[s].pc = "fetching" /\ sync'[s].pc # "fetching" =>
               /\ sync'[s].worker = "terminated"
               /\ Tables' = Tables
               /\ \/ sync'[s].pc = "txn" /\ sync'[s].feed \in Feeds
                  \/ /\ sync'[s].pc = "returned"
                     /\ sync'[s].result \in
                          {Throws(c) : c \in FetchErrors \cup {"RSS_TIMEOUT"}}
                     /\ sync'[s].timer = "fired" <=>
                          sync'[s].result = Throws("RSS_TIMEOUT")
          /\ Settled(s)
               /\ (sync'[s].late # sync[s].late
                     \/ sync'[s].timer # sync[s].timer
                     \/ sync'[s].worker # sync[s].worker) =>
               /\ sync[s].pc = "returned" \/ Outcome(sync'[s]) = Outcome(sync[s])
               /\ sync[s].pc = "returned" => sync'[s].pc = "done"
               /\ Tables' = Tables
               /\ sync[s].pc # "returned" => running' = running
       ]_vars
  /\ \A s \in Syncs : (sync[s].pc = "fetching") ~> (sync[s].pc # "fetching")

\* the timer settled the fetch, the call has thrown, and a feed that arrived
\* afterwards was dropped: nothing of it is in the database
C17_Witness ==
  \E s \in Syncs :
    /\ sync[s].pc = "done"
    /\ sync[s].timer = "fired"
    /\ sync[s].late
    /\ sync[s].worker = "exited"
    /\ episodes = {}

(***************************************************************************)
(* Properties of the foreign keys                                          *)
(***************************************************************************)
EpisodeGone(i) == getEpisodeById(episodes, gen[i].episodeId) = {}

C18_Integrity ==
  /\ \A r \in episodes : getPodcastById(podcasts, r.podcast_id) # {}
  /\ \A d \in documents : getEpisodeById(episodes, d.episode_id) # {}
  /\ \A i \in Invocations :
       (ReturnedCall(i) /\ EpisodeGone(i)
          /\ gen[i].outcome.kind = "throw") =>
         /\ getDocumentsByEpisode(documents, gen[i].episodeId) = {}
         /\ gen[i].remoteDeletes = IF gen[i].handle # NoName THEN 1 ELSE 0
         /\ (gen[i].localAudio.isEphemeral /\ ~gen[i].localThrew) =>
              ~existsSync(files, gen[i].localAudio.path)
         /\ isGenerating => \E j \in Invocations \ {i} : Holding(j)

MediaRoot == <<"Music", "Podcasts">>
\* the segment is made of letters, digits, white space, "-" and "_"
AllowListed(seg) == \A k \in 1..Len(seg) : seg[k] \in AllowedChars
\* what a file name is before its ".mp3"
Stem(name) == SubSeq(name, 1, Len(name) - 1)

\* a path under the media root whose segments are made of allow-listed
\* characters, the last one followed by ".mp3"
Sanitized(p) ==
  LET name == p[Len(p)]
  IN /\ Len(p) \in {3, 4}
     /\ SubSeq(p, 1, 2) = MediaRoot
     /\ Len(name) >= 1 /\ name[Len(name)] = ".mp3"
     /\ AllowListed(Stem(name))
     /\ Len(p) = 4 => Len(p[3]) >= 1 /\ AllowListed(p[3])
     /\ \A seg \in {p[3], Stem(name)} :
          \A k \in 1..Len(seg) : seg[k] \notin {"/", "\\", "."}

\* C19: the path of a persistent download is the media root, the podcast
\* segment (left out by the join when it is empty) and the episode segment
\* with ".mp3"; the two segments are made of allow-listed characters only,
\* the episode segment is as long as the title, none holds a separator or a
\* dot and none is "..", and every file written and every path recorded is
\* such a path.
C19_SanitizedPath ==
  /\ \A d \in Downloads :
       dl[d].destPath # NoPath =>
         /\ Sanitized(dl[d].destPath)
         /\ \A r \in getEpisodeById(episodes, dl[d].episodeId) :
              Len(Stem(dl[d].destPath[Len(dl[d].destPath)])) = Len(r.title)
  /\ \A q \in DOMAIN files : Sanitized(q)
  /\ \A r \in episodes :
       r.local_file_path # NoPath => Sanitized(r.local_file_path)

\* the example: podcast "A/B: Test?", episode "Ep #1"
C19_Witness ==
  \E d \in Downloads :
    /\ dl[d].pc = "returned"
    /\ dl[d].result = Returns(<<"Music", "Podcasts",
                                <<"A", "_", "B", "_", " ", "T", "e", "s", "t",
                                  "_">>,
                                <<"E", "p", " ", "_", "1", ".mp3">>>>)
    /\ existsSync(files, dl[d].result.value)

(***************************************************************************)
(* Properties of the duration extraction                                   *)
(***************************************************************************)
\* seconds of a text by the rule: an integer, H:MM:SS or MM:SS, otherwise 0
ExpectedDuration(raw) ==
  LET parts == split(raw)
      numerals == \A k \in 1..Len(parts) :
                    parts[k] # <<>> /\ AllDigits(parts[k])
  IN IF raw # <<>> /\ AllDigits(raw) THEN decimal(raw)
     ELSE IF numerals /\ Len(parts) = 3
     THEN decimal(parts[1]) * 3600 + decimal(parts[2]) * 60
            + decimal(parts[3])
     ELSE IF numerals /\ Len(parts) = 2
     THEN decimal(parts[1]) * 60 + decimal(parts[2])
     ELSE 0

\* C20: the duration of an item is a non-negative integer: the seconds the
\* text names as an integer, as H:MM:SS or as MM:SS, and 0 for every other
\* text.
C20_DurationParsing ==
  \A s \in Syncs :
    /\ ~sync[s].duration.nan
    /\ sync[s].duration.n >= 0
    /\ sync[s].duration.n = ExpectedDuration(sync[s].raw)

\* what the extraction yields for the specification's examples and for a
\* text whose seconds are no numeral
C20_Examples ==
  /\ parseDuration(<<"1", ":", "0", "2", ":", "0", "3">>) = Num(3723)
  /\ parseDuration(<<"4", "5", ":", "1", "0">>) = Num(2710)
  /\ parseDuration(<<"9", "0">>) = Num(90)
  /\ parseDuration(<<"a">>) = Num(0)
  /\ parseDuration(<<"1", ":", "a">>) = NaN
  /\ parseDuration(<<"1", "a">>) = Num(1)
  /\ parseDuration(<<"1", ":", "1", ":", "1", ":", "1">>) = Num(1)

(***************************************************************************)
(* Properties of the artwork                                               *)
(***************************************************************************)
Present(v) == v # NULL /\ v # ""
\* the artwork persisted for the feed URL, NULL when there is no such podcast
Persisted(P, url) ==
  IF getPodcastByFeedUrl(P, url) = {} THEN NULL
  ELSE (CHOOSE r \in getPodcastByFeedUrl(P, url) : TRUE).artwork_url

\* C21: a sync that commits leaves, as the artwork of its feed URL's podcast,
\* the override if one was passed, else the artwork persisted before, else
\* the feed's, else NULL.
C21_ArtworkPriority ==
  [][\A s \in Syncs :
       SyncCommits(s) =>
         LET override == sync[s].artworkUrl
             before == Persisted(podcasts, sync[s].url)
             feedArt == sync[s].feed.podcast.artwork_url
             after == Persisted(podcasts', sync[s].url)
         IN /\ getPodcastByFeedUrl(podcasts', sync[s].url) # {}
            /\ Present(override) => after = override
            /\ ~Present(override) /\ Present(before) => after = before
            /\ ~Present(override) /\ ~Present(before) /\ Present(feedArt) =>
                 after = feedArt
            /\ ~Present(override) /\ ~Present(before) /\ ~Present(feedArt) =>
                 after = NULL
    ]_vars

\* a sync without override whose feed carries "art1" has committed, and the
\* artwork an earlier sync had put there is still the podcast's
C21_Witness ==
  \E s \in Syncs :
    /\ sync[s].pc = "returned"
    /\ sync[s].result.kind = "return"
    /\ sync[s].artworkUrl = NULL
    /\ sync[s].feed.podcast.artwork_url = "art1"
    /\ Persisted(podcasts, sync[s].url) = "art2"

(***************************************************************************)
(* Properties of the prompt                                                *)
(***************************************************************************)
\* C22: the prompt handed to the model is the custom prompt that the
\* episode's podcast holds when getPrompt runs, after polling, and the
\* default template when it holds none; prompt changes before that moment
\* count, later ones do not; and the document records the prompt used.
C22_PromptAtResolution ==
  [][\A i \in Invocations :
       /\ (gen[i].pc = "prompt" /\ gen'[i].pc = "generate") =>
            /\ gen[i].fileState = "ACTIVE"
            /\ gen'[i].prompt =
                 PromptInForce(episodes, podcasts, gen[i].episodeId)
            /\ gen'[i].prompt \in (Prompts \ {NULL}) \cup {DefaultPrompt}
       /\ (gen[i].pc \in {"generate", "persist"} /\ gen'[i].pc # "finally") =>
            gen'[i].prompt = gen[i].prompt
       /\ (gen[i].pc = "persist" /\ gen'[i].outcome.kind = "return") =>
            \A d \in getDocumentsByEpisode(documents', gen[i].episodeId) :
              d.used_prompt = gen[i].prompt
    ]_vars

\* the podcast had no custom prompt when the upload began, got "c1" before
\* polling ended, and "c1" is what the model is given
C22_Witness ==
  \E i \in Invocations :
    /\ gen[i].pc = "generate"
    /\ gen[i].promptAtUpload = DefaultPrompt
    /\ gen[i].prompt = "c1"

(***************************************************************************)
(* Properties of the vault                                                 *)
(***************************************************************************)
\* provisioning handed invocation i a file of the vault
FromVault(i) ==
  gen[i].localAudio.path # NoPath /\ ~gen[i].localAudio.isEphemeral

\* C23: no step of generateSummary removes or rewrites a file other than the
\* temporary file of its episode; and from the moment provisioning has
\* returned a vault file, no step of that invocation touches the file or the
\* episode's row, up to and including its return.
C23_VaultUntouched ==
  [][\A i \in Invocations :
       gen'[i] # gen[i] =>
         /\ \A q \in DOMAIN files :
              q # TempPath(gen[i].episodeId) =>
                existsSync(files', q) /\ files'[q] = files[q]
         /\ \A q \in DOMAIN files \ DOMAIN files' :
              \/ gen[i].pc = "dl_stream"
              \/ gen[i].localAudio = [path |-> q, isEphemeral |-> TRUE]
         /\ FromVault(i) =>
              /\ files' = files
              /\ episodes' = episodes
              /\ gen'[i].pc # "done" => gen'[i].localAudio = gen[i].localAudio
    ]_vars

\* an oversized vault file was refused; the invocation has cleaned up and
\* returned, the file is where it was and the row still points to it
C23_Witness ==
  \E i \in Invocations :
    /\ ReturnedCall(i)
    /\ gen[i].outcome = Throws("FILE_TOO_LARGE")
    /\ FromVault(i)
    /\ existsSync(files, gen[i].localAudio.path)
    /\ \E r \in getEpisodeById(episodes, gen[i].episodeId) :
         r.is_downloaded = 1 /\ r.local_file_path = gen[i].localAudio.path

(***************************************************************************)
(* Properties of a failed regeneration                                     *)
(***************************************************************************)
\* C24: the only step of generateSummary that changes the documents is the
\* persistence step of an invocation that succeeds; every other step, a
\* persistence step whose transaction throws among them, leaves every
\* document as it was.
C24_FailureKeepsDocuments ==
  [][\A i \in Invocations :
       gen'[i] # gen[i] =>
         \/ documents' = documents
         \/ /\ gen[i].pc = "persist"
            /\ gen'[i].outcome.kind = "return"
            /\ \E d \in documents' :
                 /\ d.episode_id = gen[i].episodeId
                 /\ d.content = gen'[i].outcome.value
                 /\ d \notin documents
    ]_vars

\* a regeneration failed inside the persistence transaction and the summary
\* of the earlier invocation is still the episode's document
C24_Witness ==
  \E i \in Invocations :
    /\ gen[i].pc = "finally"
    /\ gen[i].outcome = Throws("PERSIST_FAILED")
    /\ gen[i].markdown = "md2"
    /\ \E d \in documents :
         /\ documents = {d}
         /\ d.episode_id = gen[i].episodeId
         /\ d.content = "md1"

(***************************************************************************)
(* Properties of podcast identity                                          *)
(***************************************************************************)
OneRowPerFeed(P) ==
  \A url \in FeedUrls : Cardinality(getPodcastByFeedUrl(P, url)) <= 1

\* C25: with no podcast deleted, a feed URL has at most one podcast row and
\* that row keeps its id; the transaction of a sync in which no statement
\* was failed commits, whatever other syncs are in flight, and a committing
\* sync returns the id of the one row of its URL, adding a row only when
\* the URL had none.
C25_OnePodcastPerFeed ==
  [][/\ OneRowPerFeed(podcasts) /\ OneRowPerFeed(podcasts')
     /\ \A r \in podcasts :
          \E q \in podcasts' : q.feed_url = r.feed_url /\ q.id = r.id
     /\ \A s \in Syncs :
          (sync[s].pc = "txn" /\ sync'[s] # sync[s]) =>
            /\ sync'[s].failAt = 0 => SyncCommits(s)
            /\ SyncCommits(s) =>
                 /\ \E q \in podcasts' :
                      /\ getPodcastByFeedUrl(podcasts', sync[s].url) = {q}
                      /\ q.id = sync'[s].result.value.podcastId
                 /\ getPodcastByFeedUrl(podcasts, sync[s].url) # {} =>
                      Cardinality(podcasts') = Cardinality(podcasts)
    ]_vars

\* from an empty store the second sync to start has returned and the first,
\* in flight all the while, commits second and returns the id minted by the
\* other
C25_Witness ==
  /\ sync[2].pc = "done"
  /\ sync[1].pc = "returned"
  /\ sync[1].result = Returns([podcastId |-> 1, newCount |-> 2])
  /\ sync[1].feed = FeedA
  /\ clock = 3 /\ nextId = 2
  /\ Cardinality(podcasts) = 1
  /\ \E r \in episodes : r.id = "e1" /\ r.pub_date = 2 /\ r.title = TitleA

(***************************************************************************)
(* Properties of a failed persistent download                              *)
(***************************************************************************)
\* the episode of download d is recorded at the path d writes to
RecordedAtDest(E, d) ==
  \E r \in getEpisodeById(E, dl[d].episodeId) :
    r.is_downloaded = 1 /\ r.local_file_path = dl[d].destPath

\* C26: a step of a persistent download changes the episodes only by
\* marking its episode downloaded at the destination, after the check of
\* the written file has passed and as it returns the path; and when a
\* download throws after replacing the file its episode is recorded at, that
\* file is on disk with content.
C26_FailedDownloadKeepsFile ==
  [][\A d \in Downloads :
       dl'[d] # dl[d] =>
         /\ episodes' # episodes =>
              /\ dl[d].pc = "verify"
              /\ verifyDownload(files, dl[d].destPath) = "ok"
              /\ dl'[d].result = Returns(dl[d].destPath)
              /\ episodes' = updateEpisodeDownloadStatus(
                               episodes, 1, dl[d].destPath, dl[d].episodeId)
         /\ (dl'[d].pc = "returned" /\ dl'[d].result.kind = "throw"
               /\ dl'[d].replaced /\ RecordedAtDest(episodes, d)) =>
              /\ existsSync(files', dl[d].destPath)
              /\ files'[dl[d].destPath] > 0
    ]_vars

\* the part of C26 that the code keeps: the row is written once, by the
\* verified download
C26_MarkedAfterVerification ==
  [][\A d \in Downloads :
       (dl'[d] # dl[d] /\ episodes' # episodes) =>
         /\ dl[d].pc = "verify"
         /\ verifyDownload(files, dl[d].destPath) = "ok"
         /\ dl'[d].result = Returns(dl[d].destPath)
    ]_vars

(***************************************************************************)
(* Properties of the guard during cleanup                                  *)
(***************************************************************************)
InCleanup(i) == gen[i].pc \in {"finally", "cleanup_remote"}
\* invocation j is writing, measuring or uploading the ephemeral file p
UsesTemp(j, p) ==
  \/ /\ gen[j].pc \in {"dl_stream", "dl_verify"}
     /\ p = TempPath(gen[j].episodeId)
  \/ /\ gen[j].pc \in {"sizecheck", "upload"}
     /\ gen[j].localAudio.isEphemeral
     /\ gen[j].localAudio.path = p

\* an invocation's cleanup takes away the file another invocation works on
CleanupRemovesFileInUse ==
  \E i, j \in Invocations, p \in DOMAIN files :
    /\ i # j
    /\ InCleanup(i) /\ gen'[i] # gen[i]
    /\ UsesTemp(j, p)
    /\ ~existsSync(files', p)

\* C27: while an invocation waits for its remote file to be deleted the
\* guard is held and no other invocation is in the workflow, and a cleanup
\* step never removes the ephemeral file another invocation is downloading,
\* size-checking or uploading.
C27_GuardCoversCleanup ==
  [][/\ \A i \in Invocations :
          gen'[i].pc = "cleanup_remote" =>
            /\ isGenerating'
            /\ \A j \in Invocations : ~(gen'[j].pc \in WorkflowPcs)
     /\ ~CleanupRemovesFileInUse
    ]_vars

\* the consequence alone
C27_CleanupSparesFileInUse == [][~CleanupRemovesFileInUse]_vars

(***************************************************************************)
(* Properties of the download fields                                       *)
(***************************************************************************)
\* C28: every stored episode is marked downloaded exactly when it records a
\* local file path.
C28_DownloadedIffPath ==
  \A r \in episodes :
    /\ r.is_downloaded \in {0, 1}
    /\ r.is_downloaded = 1 <=> r.local_file_path # NoPath

\* after a sync has rewritten the titles, e1 has been downloaded and e2,
\* downloaded at the start, has been reset by provisioning for a summary
C28_Witness ==
  /\ gen[1].pc = "dl_request"
  /\ gen[1].episodeId = "e2"
  /\ \E r \in episodes :
       /\ r.id = "e1" /\ r.title = TitleB
       /\ r.is_downloaded = 1 /\ TruthyPath(r.local_file_path)
  /\ \E r \in episodes :
       /\ r.id = "e2" /\ r.title = TitleA
       /\ r.is_downloaded = 0 /\ r.local_file_path = NoPath

(***************************************************************************)
(* Properties of the vault's file names                                    *)
(***************************************************************************)
\* C29: no two stored episodes record the same local file path.
C29_DistinctPaths ==
  \A r, q \in episodes :
    (r.id # q.id /\ r.local_file_path # NoPath) =>
      r.local_file_path # q.local_file_path

(***************************************************************************)
(* Properties of episode ownership                                         *)
(***************************************************************************)
\* C30: when the transaction of a sync commits, every item of the fetched
\* feed is a stored episode of the podcast whose id the sync returns.
C30_EpisodesOwnedByReturnedPodcast ==
  [][\A s \in Syncs :
       SyncCommits(s) =>
         \A k \in 1..Len(sync[s].feed.episodes) :
           \E r \in getEpisodesByPodcast(episodes',
                                         sync'[s].result.value.podcastId) :
             r.id = sync[s].feed.episodes[k].guid
    ]_vars

\* the part of C30 that the code keeps: every item is a stored episode, and
\* one that was not stored before belongs to the returned podcast
C30_EpisodesStored ==
  [][\A s \in Syncs :
       SyncCommits(s) =>
         \A k \in 1..Len(sync[s].feed.episodes) :
           \E r \in episodes' :
             /\ r.id = sync[s].feed.episodes[k].guid
             /\ getEpisodeById(episodes, r.id) = {} =>
                  r.podcast_id = sync'[s].result.value.podcastId
    ]_vars

=============================================================================
